---- MODULE Spec2Model ----
(***************************************************************************)
(* A model of the drawing core of text-paint (src/src/app.rs): the cell    *)
(* compositor, the Raster, the four DrawingEvent variants, the UndoBuffer  *)
(* and the input handlers of the GUI that drive them.                      *)
(*                                                                         *)
(* Option<T> is modelled as a sequence of length at most one: None is <<>> *)
(* and Some(x) is <<x>>.  A Coord is a pair <<x, y>>.  A grid is a function*)
(* from its in-bounds coordinates to cells, so grid.get(coord) is Some     *)
(* exactly when coord \in DOMAIN grid.                                     *)
(***************************************************************************)
EXTENDS Integers, Sequences, FiniteSets, TLC

VARIABLES
    palette_indices,      \* DrawingState.palette_indices: [ch, fg, bg], each Option<PaletteIndex>
    tool_index,           \* DrawingState.tool_index
    canvas_state,         \* DrawingState.canvas_state: the committed Raster (its grid)
    current_event,        \* DrawingState.current_event: Option<DrawingEvent>
    undo_buffer,          \* DrawingState.undo_buffer: [initial, events, redo_buffer]
    eyedrop_render_cell,  \* DrawingState.eyedrop_render_cell: Option<RenderCell>
    fg_opacity,           \* DrawingState.fg_opacity
    bg_opacity,           \* DrawingState.bg_opacity
    panicked,             \* TRUE once a handler has aborted the process (a Rust panic)
    flood,                \* the locals of a running Raster::flood_fill call (SpecFlood)
    compose,              \* arguments and result of a stack_render_cells call (SpecCompose)
    replay,               \* the locals of a running replay of the history (SpecReplay)
    stroke,               \* history variable: the calls made on the event of a stroke (SpecStroke)
    stroke_cell,          \* history variable: the paint style selected when the stroke began
    last_input,           \* history variable: the input handled last and what it observed
    n_inputs              \* history variable: number of inputs handled

vars == <<palette_indices, tool_index, canvas_state, current_event, undo_buffer,
          eyedrop_render_cell, fg_opacity, bg_opacity, panicked, flood, compose, replay, stroke,
          stroke_cell, last_input, n_inputs>>

drawing == <<palette_indices, tool_index, canvas_state, current_event, undo_buffer,
             eyedrop_render_cell, fg_opacity, bg_opacity, panicked>>

(***************************************************************************)
(* Bounds of the model.                                                    *)
(***************************************************************************)
\* Width and height of the canvas of the session (100 x 80 in DrawingState::new).
CanvasWidth == 3
CanvasHeight == 2
\* Number of inputs a run of the session handles.
MaxInputs == 5
\* Width and height of the rasters flood_fill is run on by itself.
FloodWidth == 3
FloodHeight == 2
\* Width and height of the canvas single strokes are run on, and the number
\* of mouse_move calls a stroke gets.
StrokeWidth == 4
StrokeHeight == 2
MaxMoves == 2
\* Width and height of the rasters flood_fill is run to its return on.
TermWidth == 2
TermHeight == 2
\* Width and height of the raster histories are replayed on by themselves.
ReplayWidth == 3
ReplayHeight == 2

None == <<>>
Some(x) == <<x>>
IsSome(o) == o # <<>>
Unwrap(o) == o[1]
\* A faulty Option::or: the second option wins when it is Some.
OptionOrSecondFirst(a, b) == IF IsSome(b) THEN b ELSE a

\* Option::or
OptionOr(a, b) == IF IsSome(a) THEN a ELSE b

(***************************************************************************)
(* Colours: Rgba32 as <<r, g, b, a>> with 8-bit channels.                  *)
(***************************************************************************)
Byte == 256
Rgba32(r, g, b, a) == <<r, g, b, a>>
NewGrey(c) == Rgba32(c, c, c, 255)
\* Rgb24::to_rgba32(alpha)
ToRgba32(rgb, alpha) == Rgba32(rgb[1], rgb[2], rgb[3], alpha)

\* u8 helpers of Rgba32::alpha_composite (integer arithmetic, truncating)
MulU8(a, b) == (a * b) \div 255
DivU8(a, b) == ((255 * a) \div b) % Byte

\* top.alpha_composite(below), a function of the rgb_int library: Porter-Duff
\* "over" on 8-bit channels.  The properties below use only that it is a
\* function of its two arguments.
AlphaComposite(top, below) ==
    LET alpha_out_rhs == MulU8(below[4], 255 - top[4])
        alpha_out == top[4] + alpha_out_rhs
        single_channel(c_top, c_below) ==
            DivU8((MulU8(c_top, top[4]) + MulU8(c_below, alpha_out_rhs)) % Byte, alpha_out)
    IN  Rgba32(single_channel(top[1], below[1]),
               single_channel(top[2], below[2]),
               single_channel(top[3], below[3]),
               alpha_out)

(***************************************************************************)
(* RenderCell and the cell compositor (Raster::stack_render_cells).        *)
(***************************************************************************)
RenderCell(ch, fg, bg, bold, underline) ==
    [character |-> ch, foreground |-> fg, background |-> bg,
     bold |-> bold, underline |-> underline]

\* the cell Raster::new and Raster::clear_coord store
BlankCell == RenderCell(None, None, Some(NewGrey(0)), None, None)

\* A faulty blend: the colour of the first argument alone.
BlendFirstOnly(a, b) == a

\* fn blend inside stack_render_cells
Blend(a, b) ==
    IF ~IsSome(a) /\ ~IsSome(b) THEN None
    ELSE IF ~IsSome(b) THEN a
    ELSE IF ~IsSome(a) THEN b
    ELSE Some(AlphaComposite(Unwrap(a), Unwrap(b)))

\* A faulty compositor: the incoming foreground is always blended over the
\* bottom's foreground.
StackRenderCellsOverForeground(bottom, top) ==
    [character  |-> OptionOr(top.character, bottom.character),
     background |-> Blend(top.background, bottom.background),
     foreground |-> Blend(top.foreground, bottom.foreground),
     bold       |-> OptionOr(top.bold, bottom.bold),
     underline  |-> OptionOr(top.bold, bottom.underline)]

\* Raster::stack_render_cells
StackRenderCells(bottom, top) ==
    LET bottom_foreground ==
            IF ~IsSome(bottom.character) THEN bottom.background ELSE bottom.foreground
    IN  [character  |-> OptionOr(top.character, bottom.character),
         background |-> Blend(top.background, bottom.background),
         foreground |-> Blend(top.foreground, bottom_foreground),
         bold       |-> OptionOr(top.bold, bottom.bold),
         underline  |-> OptionOr(top.bold, bottom.underline)]

(***************************************************************************)
(* Raster.                                                                 *)
(***************************************************************************)
SizeCoords(w, h) == (0 .. w - 1) \X (0 .. h - 1)

\* A Raster::new without with_background: every cell is Style::default() with
\* no character.
RasterNewStyleDefault(w, h) ==
    [c \in SizeCoords(w, h) |-> RenderCell(None, None, None, None, None)]

\* Raster::new(size)
RasterNew(w, h) == [c \in SizeCoords(w, h) |-> BlankCell]

\* A faulty set_coord: the cell is addressed by the flat index y * width + x
\* and only the index is checked against the number of cells, so a coordinate
\* right of the grid lands in the next row.
SetCoordFlatIndex(grid, coord, cell) ==
    LET width == Cardinality({c \in DOMAIN grid : c[2] = 0})
        index == coord[2] * width + coord[1]
        target == <<index % width, index \div width>>
    IN  IF index >= 0 /\ index < Cardinality(DOMAIN grid)
        THEN [grid EXCEPT ![target] = StackRenderCells(grid[target], cell)]
        ELSE grid

\* A faulty set_coord: the style is composed onto the cell left of the
\* coordinate, where there is one, and the result stored at the coordinate.
SetCoordReadsLeft(grid, coord, cell) ==
    LET left == <<coord[1] - 1, coord[2]>>
        base == IF left \in DOMAIN grid THEN left ELSE coord
    IN  IF coord \in DOMAIN grid
        THEN [grid EXCEPT ![coord] = StackRenderCells(grid[base], cell)]
        ELSE grid

\* Raster::set_coord
SetCoord(grid, coord, cell) ==
    IF coord \in DOMAIN grid
    THEN [grid EXCEPT ![coord] = StackRenderCells(grid[coord], cell)]
    ELSE grid

\* A faulty clear_coord: it sets the coordinate with a cell of no character and
\* no colour instead of overwriting the stored cell.
ClearCoordSetsTransparent(grid, coord) ==
    SetCoord(grid, coord, RenderCell(None, None, None, None, None))

\* Raster::clear_coord
ClearCoord(grid, coord) ==
    IF coord \in DOMAIN grid
    THEN [grid EXCEPT ![coord] = BlankCell]
    ELSE grid

(***************************************************************************)
(* line_2d (a library): the segment from start to end, both endpoints     *)
(* included, as the sequence of coordinates a Bresenham traversal visits.  *)
(***************************************************************************)
Abs(n) == IF n < 0 THEN -n ELSE n
Sign(n) == IF n < 0 THEN -1 ELSE IF n > 0 THEN 1 ELSE 0

RECURSIVE LineWalk(_, _, _, _, _, _)
\* the coordinates after cur; major/minor are unit steps, acc is the error accumulator
LineWalk(cur, major, minor, major_abs, minor_abs, k) ==
    IF k = 0 THEN <<>>
    ELSE LET acc0 == cur.acc + minor_abs
             ordinal == acc0 > (major_abs \div 2)
             next == IF ordinal
                     THEN [x |-> cur.x + major[1] + minor[1],
                           y |-> cur.y + major[2] + minor[2],
                           acc |-> acc0 - major_abs]
                     ELSE [x |-> cur.x + major[1], y |-> cur.y + major[2], acc |-> acc0]
         IN  <<<<next.x, next.y>>>> \o LineWalk(next, major, minor, major_abs, minor_abs, k - 1)

\* LineSegment::new(start, end).config_iter(exclude_start: true, exclude_end: false)
LineExcludeStart(start, end) ==
    LET dx == end[1] - start[1]
        dy == end[2] - start[2]
        x_major == Abs(dx) > Abs(dy)
        major == IF x_major THEN <<Sign(dx), 0>> ELSE <<0, Sign(dy)>>
        minor == IF x_major THEN <<0, Sign(dy)>> ELSE <<Sign(dx), 0>>
        major_abs == IF x_major THEN Abs(dx) ELSE Abs(dy)
        minor_abs == IF x_major THEN Abs(dy) ELSE Abs(dx)
    IN  LineWalk([x |-> start[1], y |-> start[2], acc |-> 0],
                 major, minor, major_abs, minor_abs, major_abs)

\* line_2d::coords_between(start, end)
CoordsBetween(start, end) == <<start>> \o LineExcludeStart(start, end)

SeqToSet(s) == {s[i] : i \in 1 .. Len(s)}

(***************************************************************************)
(* Raster::flood_fill.  A result is [panicked, seen]: get_checked aborts   *)
(* when the seed is outside the grid.                                      *)
(***************************************************************************)
\* A faulty direction list: West is missing.
CardinalDirectionsWithoutWest == <<<<0, -1>>, <<1, 0>>, <<0, 1>>>>

\* CardinalDirection::all(): North, East, South, West as coordinate offsets
CardinalDirections == <<<<0, -1>>, <<1, 0>>, <<0, 1>>, <<-1, 0>>>>

CoordAdd(a, b) == <<a[1] + b[1], a[2] + b[2]>>

RECURSIVE FloodNeighboursNoInsert(_, _, _, _, _)
\* A faulty for loop: a neighbour is queued but not inserted into seen.
FloodNeighboursNoInsert(grid, initial_cell, coord, i, st) ==
    IF i > Len(CardinalDirections) THEN st
    ELSE LET nei_coord == CoordAdd(coord, CardinalDirections[i])
             st1 == IF nei_coord \notin st.seen
                       /\ nei_coord \in DOMAIN grid
                       /\ grid[nei_coord] = initial_cell
                    THEN [queue |-> <<nei_coord>> \o st.queue, seen |-> st.seen]
                    ELSE st
         IN  FloodNeighboursNoInsert(grid, initial_cell, coord, i + 1, st1)

RECURSIVE FloodNeighbours(_, _, _, _, _)
\* the for loop over the directions, from direction i on; st is [queue, seen]
FloodNeighbours(grid, initial_cell, coord, i, st) ==
    IF i > Len(CardinalDirections) THEN st
    ELSE LET nei_coord == CoordAdd(coord, CardinalDirections[i])
             st1 == IF nei_coord \notin st.seen
                       /\ nei_coord \in DOMAIN grid
                       /\ grid[nei_coord] = initial_cell
                    THEN [queue |-> <<nei_coord>> \o st.queue,
                          seen  |-> st.seen \cup {nei_coord}]
                    ELSE st
         IN  FloodNeighbours(grid, initial_cell, coord, i + 1, st1)

\* one iteration of the while loop: pop_back, then visit the neighbours
FloodStep(grid, initial_cell, st) ==
    LET coord == st.queue[Len(st.queue)]
        popped == [queue |-> SubSeq(st.queue, 1, Len(st.queue) - 1), seen |-> st.seen]
    IN  FloodNeighbours(grid, initial_cell, coord, 1, popped)

RECURSIVE FloodLoop(_, _, _)
FloodLoop(grid, initial_cell, st) ==
    IF st.queue = <<>> THEN st.seen
    ELSE FloodLoop(grid, initial_cell, FloodStep(grid, initial_cell, st))

FloodFill(grid, coord) ==
    IF coord \notin DOMAIN grid
    THEN [panicked |-> TRUE, seen |-> {}]
    ELSE [panicked |-> FALSE,
          seen |-> FloodLoop(grid, grid[coord], [queue |-> <<coord>>, seen |-> {coord}])]

(***************************************************************************)
(* DrawingEvent and its variants.                                          *)
(***************************************************************************)
\* PencilEvent::mouse_press
PencilMousePress(coord) ==
    [tag |-> "Pencil", coords |-> (coord :> 1), last_coord |-> coord]

RECURSIVE PencilCountInsertsOne(_, _)
\* A faulty count loop: self.coords.insert(coord, 1), which resets the count
\* of a coordinate visited before.
PencilCountInsertsOne(coords, path) ==
    IF path = <<>> THEN coords
    ELSE LET c == Head(path)
             coords1 == IF c \in DOMAIN coords
                        THEN [coords EXCEPT ![c] = 1]
                        ELSE coords @@ (c :> 1)
         IN  PencilCountInsertsOne(coords1, Tail(path))

RECURSIVE PencilCount(_, _)
\* *self.coords.entry(coord).or_insert(0) += 1, for each coordinate of path
PencilCount(coords, path) ==
    IF path = <<>> THEN coords
    ELSE LET c == Head(path)
             coords1 == IF c \in DOMAIN coords
                        THEN [coords EXCEPT ![c] = @ + 1]
                        ELSE coords @@ (c :> 1)
         IN  PencilCount(coords1, Tail(path))

\* A faulty mouse_move: no test against last_coord, and the segment is counted
\* with its start point.
PencilMouseMoveCountsStart(ev, coord) ==
    [tag |-> "Pencil",
     coords |-> PencilCount(ev.coords, CoordsBetween(ev.last_coord, coord)),
     last_coord |-> coord]

\* PencilEvent::mouse_move
PencilMouseMove(ev, coord) ==
    IF coord # ev.last_coord
    THEN [tag |-> "Pencil",
          coords |-> PencilCount(ev.coords, LineExcludeStart(ev.last_coord, coord)),
          last_coord |-> coord]
    ELSE ev

\* A faulty mouse_move: the seed stays where the stroke was pressed.
FillMouseMoveKeepsSeed(ev, coord) == ev

\* FillEvent::mouse_press, FillEvent::mouse_move
FillMousePress(coord) == [tag |-> "Fill", start |-> coord]
FillMouseMove(ev, coord) == [ev EXCEPT !.start = coord]

\* A faulty mouse_press: the segment starts at the origin of the canvas.
LineMousePressFromOrigin(coord) == [tag |-> "Line", start |-> <<0, 0>>, end |-> coord]

\* LineEvent::mouse_press, LineEvent::mouse_move
LineMousePress(coord) == [tag |-> "Line", start |-> coord, end |-> coord]
LineMouseMove(ev, coord) == [ev EXCEPT !.end = coord]

\* A faulty mouse_move: only the new coordinate is inserted, not the segment.
EraseMouseMoveEndpointOnly(ev, coord) ==
    [tag |-> "Erase", coords |-> ev.coords \cup {coord}, last_coord |-> coord]

\* EraseEvent::mouse_press, EraseEvent::mouse_move
EraseMousePress(coord) == [tag |-> "Erase", coords |-> {coord}, last_coord |-> coord]
EraseMouseMove(ev, coord) ==
    [tag |-> "Erase",
     coords |-> ev.coords \cup SeqToSet(CoordsBetween(ev.last_coord, coord)),
     last_coord |-> coord]

\* DrawingEvent::mouse_move
DrawingEventMouseMove(ev, coord) ==
    CASE ev.tag = "Pencil" -> PencilMouseMove(ev, coord)
      [] ev.tag = "Fill"   -> FillMouseMove(ev, coord)
      [] ev.tag = "Line"   -> LineMouseMove(ev, coord)
      [] ev.tag = "Erase"  -> EraseMouseMove(ev, coord)

RECURSIVE SetCoordTimes(_, _, _, _)
\* for _ in 0..count { raster.set_coord(coord, render_cell) }
SetCoordTimes(grid, coord, cell, count) ==
    IF count = 0 THEN grid
    ELSE SetCoordTimes(SetCoord(grid, coord, cell), coord, cell, count - 1)

RECURSIVE PencilCommitLoop(_, _, _, _)
\* the loop over the HashMap, one entry at a time
PencilCommitLoop(grid, coords, todo, cell) ==
    IF todo = {} THEN grid
    ELSE LET c == CHOOSE c \in todo : TRUE
         IN  PencilCommitLoop(SetCoordTimes(grid, c, cell, coords[c]),
                              coords, todo \ {c}, cell)

\* A faulty commit: every recorded coordinate is painted once, whatever its count.
PencilCommitOnce(ev, cell, grid) ==
    [panicked |-> FALSE,
     grid |-> PencilCommitLoop(grid, [c \in DOMAIN ev.coords |-> 1], DOMAIN ev.coords, cell)]

\* PencilEvent::commit
PencilCommit(ev, cell, grid) ==
    [panicked |-> FALSE, grid |-> PencilCommitLoop(grid, ev.coords, DOMAIN ev.coords, cell)]

RECURSIVE SetCoordSet(_, _, _)
SetCoordSet(grid, todo, cell) ==
    IF todo = {} THEN grid
    ELSE LET c == CHOOSE c \in todo : TRUE
         IN  SetCoordSet(SetCoord(grid, c, cell), todo \ {c}, cell)

\* FillEvent::commit
FillCommit(ev, cell, grid) ==
    LET region == FloodFill(grid, ev.start)
    IN  IF region.panicked
        THEN [panicked |-> TRUE, grid |-> grid]
        ELSE [panicked |-> FALSE, grid |-> SetCoordSet(grid, region.seen, cell)]

RECURSIVE SetCoordSeq(_, _, _)
SetCoordSeq(grid, path, cell) ==
    IF path = <<>> THEN grid
    ELSE SetCoordSeq(SetCoord(grid, Head(path), cell), Tail(path), cell)

\* A faulty commit: the start point of the segment is left out.
LineCommitWithoutStart(ev, cell, grid) ==
    [panicked |-> FALSE, grid |-> SetCoordSeq(grid, LineExcludeStart(ev.start, ev.end), cell)]

\* LineEvent::commit
LineCommit(ev, cell, grid) ==
    [panicked |-> FALSE, grid |-> SetCoordSeq(grid, CoordsBetween(ev.start, ev.end), cell)]

RECURSIVE ClearCoordSet(_, _)
ClearCoordSet(grid, todo) ==
    IF todo = {} THEN grid
    ELSE LET c == CHOOSE c \in todo : TRUE
         IN  ClearCoordSet(ClearCoord(grid, c), todo \ {c})

\* EraseEvent::commit
EraseCommit(ev, grid) ==
    [panicked |-> FALSE, grid |-> ClearCoordSet(grid, ev.coords)]

\* DrawingEvent::commit
DrawingEventCommit(ev, cell, grid) ==
    CASE ev.tag = "Pencil" -> PencilCommit(ev, cell, grid)
      [] ev.tag = "Fill"   -> FillCommit(ev, cell, grid)
      [] ev.tag = "Line"   -> LineCommit(ev, cell, grid)
      [] ev.tag = "Erase"  -> EraseCommit(ev, grid)

(***************************************************************************)
(* Previews.  A preview is the set of fb.set_cell_relative_to_ctx calls it *)
(* makes, as a function from the coordinates it writes to the cells it     *)
(* writes there; no preview writes a coordinate twice.                     *)
(***************************************************************************)
RECURSIVE StackRenderCellsTimes(_, _, _)
\* for _ in 0..count { stacked = stack_render_cells(stacked, render_cell) }
StackRenderCellsTimes(stacked, cell, count) ==
    IF count = 0 THEN stacked
    ELSE StackRenderCellsTimes(StackRenderCells(stacked, cell), cell, count - 1)

\* PencilEvent::preview
PencilPreview(ev, grid, cell) ==
    [panicked |-> FALSE,
     cells |-> [c \in DOMAIN ev.coords \cap DOMAIN grid |->
                   StackRenderCellsTimes(grid[c], cell, ev.coords[c])]]

\* FillEvent::preview
FillPreview(ev, grid, cell) ==
    LET region == FloodFill(grid, ev.start)
    IN  IF region.panicked
        THEN [panicked |-> TRUE, cells |-> <<>>]
        ELSE [panicked |-> FALSE,
              cells |-> [c \in region.seen \cap DOMAIN grid |-> StackRenderCells(grid[c], cell)]]

\* LineEvent::preview
LinePreview(ev, grid, cell) ==
    [panicked |-> FALSE,
     cells |-> [c \in SeqToSet(CoordsBetween(ev.start, ev.end)) \cap DOMAIN grid |->
                   StackRenderCells(grid[c], cell)]]

\* the cell EraseEvent::preview draws: the full block character (U+2588) in
\* black
EraseBlankRenderCell == RenderCell(Some("full block"), Some(NewGrey(0)), None, None, None)

\* EraseEvent::preview: every visited coordinate, with no test against the raster
ErasePreview(ev) ==
    [panicked |-> FALSE, cells |-> [c \in ev.coords |-> EraseBlankRenderCell]]

\* DrawingEvent::preview
DrawingEventPreview(ev, grid, cell) ==
    CASE ev.tag = "Pencil" -> PencilPreview(ev, grid, cell)
      [] ev.tag = "Fill"   -> FillPreview(ev, grid, cell)
      [] ev.tag = "Line"   -> LinePreview(ev, grid, cell)
      [] ev.tag = "Erase"  -> ErasePreview(ev)

\* Rgba32::saturating_scalar_mul_div of the rgb_int library: the colour
\* channels are scaled and saturate at 255, the alpha channel is kept
SaturatingScalarMulDiv(c, numerator, denominator) ==
    LET scale(x) == IF (x * numerator) \div denominator > 255 THEN 255
                    ELSE (x * numerator) \div denominator
    IN  Rgba32(scale(c[1]), scale(c[2]), scale(c[3]), c[4])

\* the cell CanvasComponent::render draws for the raster cell under the
\* pointer: its background is brightened, or mid grey when it has none
HoverCell(cell) ==
    [cell EXCEPT !.background = IF IsSome(cell.background)
                                THEN Some(SaturatingScalarMulDiv(Unwrap(cell.background), 4, 3))
                                ELSE Some(NewGrey(127))]

\* A faulty frame buffer: a cell already drawn is kept.
SetCellsRelativeToCtxKeepsDrawn(fb, cells) == fb

\* fb.set_cell_relative_to_ctx for every cell of a preview, drawn one depth
\* above what the frame holds: a coordinate outside the frame is ignored, a
\* cell already drawn there is covered
SetCellsRelativeToCtx(fb, cells) ==
    [c \in DOMAIN fb |-> IF c \in DOMAIN cells THEN cells[c] ELSE fb[c]]

\* CanvasComponent::render: the frame it leaves, or a panic of the preview
CanvasComponentRender(grid, event, cell, hover) ==
    LET raster_pass == [c \in DOMAIN grid |->
                           IF Some(c) = hover THEN HoverCell(grid[c]) ELSE grid[c]]
    IN  IF IsSome(event)
        THEN LET preview == DrawingEventPreview(Unwrap(event), grid, cell)
             IN  [panicked |-> preview.panicked,
                  fb |-> SetCellsRelativeToCtx(raster_pass, preview.cells)]
        ELSE [panicked |-> FALSE, fb |-> raster_pass]

\* DrawingEventWithRenderCell
DrawingEventWithRenderCell(ev, cell) == [drawing_event |-> ev, render_cell |-> cell]

\* Raster::commit_event
RasterCommitEvent(grid, event) ==
    DrawingEventCommit(event.drawing_event, event.render_cell, grid)

RECURSIVE Replay(_, _)
\* for event in &self.events { raster.commit_event(event) }
Replay(grid, events) ==
    IF events = <<>> THEN [panicked |-> FALSE, grid |-> grid]
    ELSE LET r == RasterCommitEvent(grid, Head(events))
         IN  IF r.panicked THEN r ELSE Replay(r.grid, Tail(events))

(***************************************************************************)
(* UndoBuffer.  undo and redo return [panicked, ub, raster].               *)
(***************************************************************************)
\* UndoBuffer::new
UndoBufferNew(initial) == [initial |-> initial, events |-> <<>>, redo_buffer |-> <<>>]

\* A faulty undo: the last event is popped but not pushed on the redo buffer.
UndoBufferUndoDropsEvent(ub) ==
    IF ub.events # <<>>
    THEN LET ub1 == [initial |-> ub.initial,
                     events |-> SubSeq(ub.events, 1, Len(ub.events) - 1),
                     redo_buffer |-> ub.redo_buffer]
             r == Replay(ub.initial, ub1.events)
         IN  [panicked |-> r.panicked, ub |-> ub1, raster |-> r.grid]
    ELSE [panicked |-> FALSE, ub |-> ub, raster |-> ub.initial]

\* A faulty undo: the events are replayed before the last one is popped.
UndoBufferUndoReplaysFirst(ub) ==
    IF ub.events # <<>>
    THEN LET n == Len(ub.events)
             ub1 == [initial |-> ub.initial,
                     events |-> SubSeq(ub.events, 1, n - 1),
                     redo_buffer |-> Append(ub.redo_buffer, ub.events[n])]
             r == Replay(ub.initial, ub.events)
         IN  [panicked |-> r.panicked, ub |-> ub1, raster |-> r.grid]
    ELSE [panicked |-> FALSE, ub |-> ub, raster |-> ub.initial]

\* A faulty undo: the events are replayed onto self.initial itself, not a clone.
UndoBufferUndoInPlace(ub) ==
    IF ub.events # <<>>
    THEN LET n == Len(ub.events)
             r == Replay(ub.initial, SubSeq(ub.events, 1, n - 1))
         IN  [panicked |-> r.panicked,
              ub |-> [initial |-> r.grid,
                      events |-> SubSeq(ub.events, 1, n - 1),
                      redo_buffer |-> Append(ub.redo_buffer, ub.events[n])],
              raster |-> r.grid]
    ELSE [panicked |-> FALSE, ub |-> ub, raster |-> ub.initial]

\* UndoBuffer::undo
UndoBufferUndo(ub) ==
    IF ub.events # <<>>
    THEN LET n == Len(ub.events)
             ub1 == [initial |-> ub.initial,
                     events |-> SubSeq(ub.events, 1, n - 1),
                     redo_buffer |-> Append(ub.redo_buffer, ub.events[n])]
             r == Replay(ub.initial, ub1.events)
         IN  [panicked |-> r.panicked, ub |-> ub1, raster |-> r.grid]
    ELSE [panicked |-> FALSE, ub |-> ub, raster |-> ub.initial]

\* A faulty redo: like undo, it replays only when it popped an event.
UndoBufferRedoReplaysOnlyOnPop(ub) ==
    IF ub.redo_buffer # <<>>
    THEN LET n == Len(ub.redo_buffer)
             ub1 == [initial |-> ub.initial,
                     events |-> Append(ub.events, ub.redo_buffer[n]),
                     redo_buffer |-> SubSeq(ub.redo_buffer, 1, n - 1)]
             r == Replay(ub.initial, ub1.events)
         IN  [panicked |-> r.panicked, ub |-> ub1, raster |-> r.grid]
    ELSE [panicked |-> FALSE, ub |-> ub, raster |-> ub.initial]

\* A faulty redo: the oldest event of the redo buffer is taken, not the last.
UndoBufferRedoTakesOldest(ub) ==
    LET n == Len(ub.redo_buffer)
        ub1 == IF ub.redo_buffer # <<>>
               THEN [initial |-> ub.initial,
                     events |-> Append(ub.events, ub.redo_buffer[1]),
                     redo_buffer |-> SubSeq(ub.redo_buffer, 2, n)]
               ELSE ub
        r == Replay(ub.initial, ub1.events)
    IN  [panicked |-> r.panicked, ub |-> ub1, raster |-> r.grid]

\* UndoBuffer::redo
UndoBufferRedo(ub) ==
    LET n == Len(ub.redo_buffer)
        ub1 == IF ub.redo_buffer # <<>>
               THEN [initial |-> ub.initial,
                     events |-> Append(ub.events, ub.redo_buffer[n]),
                     redo_buffer |-> SubSeq(ub.redo_buffer, 1, n - 1)]
               ELSE ub
        r == Replay(ub.initial, ub1.events)
    IN  [panicked |-> r.panicked, ub |-> ub1, raster |-> r.grid]

\* A faulty commit_event: the redo buffer is not cleared.
UndoBufferCommitEventKeepsRedo(ub, event) ==
    [initial |-> ub.initial, events |-> Append(ub.events, event),
     redo_buffer |-> ub.redo_buffer]

\* UndoBuffer::commit_event
UndoBufferCommitEvent(ub, event) ==
    [initial |-> ub.initial, events |-> Append(ub.events, event), redo_buffer |-> <<>>]

(***************************************************************************)
(* The session: Tool, Palette, DrawingState and AppData.                   *)
(***************************************************************************)
\* Tool::all()
Tools == <<"Pencil", "Fill", "Line", "Erase", "Eyedrop">>

\* Tool::new_event
ToolNewEvent(tool, coord) ==
    CASE tool = "Pencil" -> Some(PencilMousePress(coord))
      [] tool = "Fill"   -> Some(FillMousePress(coord))
      [] tool = "Line"   -> Some(LineMousePress(coord))
      [] tool = "Erase"  -> Some(EraseMousePress(coord))
      [] OTHER           -> None

\* The palette file the session was started with: one glyph, one foreground
\* and two background colours (Rgb24 as <<r, g, b>>).
PaletteCh == <<"a">>
PaletteFg == <<<<0, 200, 0>>>>
PaletteBg == <<<<200, 0, 0>>, <<0, 0, 200>>>>

\* PaletteIndex: PaletteIndex::None is <<>>, PaletteIndex::Index(i) is <<i>>
\* (the value of PaletteIndex::option, with i counted from 1)
PaletteIndexNone == <<>>
PaletteIndexOf(i) == <<i>>

\* AppData::get_ch, get_fg, get_bg
GetCh(indices) ==
    IF IsSome(indices.ch) /\ IsSome(Unwrap(indices.ch))
    THEN Some(PaletteCh[Unwrap(Unwrap(indices.ch))]) ELSE None
GetFg(indices, opacity) ==
    IF IsSome(indices.fg) /\ IsSome(Unwrap(indices.fg))
    THEN Some(ToRgba32(PaletteFg[Unwrap(Unwrap(indices.fg))], opacity)) ELSE None
GetBg(indices, opacity) ==
    IF IsSome(indices.bg) /\ IsSome(Unwrap(indices.bg))
    THEN Some(ToRgba32(PaletteBg[Unwrap(Unwrap(indices.bg))], opacity)) ELSE None

\* AppData::current_render_cell, as a function of the fields it reads
RenderCellOf(eyedrop, indices, fg_op, bg_op) ==
    IF IsSome(eyedrop) THEN Unwrap(eyedrop)
    ELSE RenderCell(GetCh(indices), GetFg(indices, fg_op), GetBg(indices, bg_op), None, None)

CurrentRenderCell ==
    RenderCellOf(eyedrop_render_cell, palette_indices, fg_opacity, bg_opacity)

\* AppData::current_tool
CurrentTool == Tools[tool_index + 1]

NoPaletteIndices == [ch |-> None, fg |-> None, bg |-> None]

(***************************************************************************)
(* Inputs the environment delivers.                                        *)
(***************************************************************************)
CanvasCoords == SizeCoords(CanvasWidth, CanvasHeight)
\* where the pointer is pressed on the canvas
PressCoords == {<<0, 0>>, <<1, 0>>}
\* where the pointer is dragged to with the button held, relative to the
\* canvas: on it and left of it
MoveCoords == {<<1, 1>>, <<0, 0>>, <<-1, 0>>}
\* palette cells that are pressed: <<row, PaletteIndex>>
PalettePresses == {<<"bg", PaletteIndexOf(1)>>, <<"fg", PaletteIndexOf(1)>>,
                   <<"ch", PaletteIndexOf(1)>>, <<"ch", PaletteIndexNone>>}
\* values typed into the opacity dialogs
OpacityValues == {127}

(***************************************************************************)
(* History variables.                                                      *)
(***************************************************************************)
FloodIdle == [pc |-> "idle"]
ComposeIdle == [pc |-> "idle"]
ReplayIdle == [pc |-> "idle"]
StrokeIdle == [pc |-> "idle", frame |-> None]

\* the inputs for which last_input records whether an event was in progress
StrokeOps == {"canvas_press", "mouse_move", "mouse_release", "undo", "redo"}

\* stroke_cell follows current_event: the style selected at the press that
\* created the event, None when no event is in progress.  last_input records
\* what the handler of op found: whether an event was in progress, the length
\* of the redo buffer and the style the stroke began with
Observe(op) ==
    /\ last_input' = [op |-> op,
                      had_event |-> op \in StrokeOps /\ IsSome(current_event),
                      redo_len |-> IF op \in {"mouse_release", "redo"}
                                   THEN Len(undo_buffer.redo_buffer) ELSE 0,
                      start_cell |-> IF op = "mouse_release" THEN stroke_cell ELSE None]
    /\ stroke_cell' = IF ~IsSome(current_event') THEN None
                      ELSE IF op = "canvas_press" /\ CurrentTool # "Eyedrop"
                      THEN Some(CurrentRenderCell)
                      ELSE stroke_cell
    /\ n_inputs' = n_inputs + 1
    /\ UNCHANGED <<flood, compose, replay, stroke>>

Accepting == ~panicked /\ n_inputs < MaxInputs

(***************************************************************************)
(* Init: DrawingState::new.                                                *)
(***************************************************************************)
Init ==
    /\ palette_indices = NoPaletteIndices
    /\ tool_index = 0
    /\ canvas_state = RasterNew(CanvasWidth, CanvasHeight)
    /\ current_event = None
    /\ undo_buffer = UndoBufferNew(RasterNew(CanvasWidth, CanvasHeight))
    /\ eyedrop_render_cell = None
    /\ fg_opacity = 255
    /\ bg_opacity = 255
    /\ panicked = FALSE
    /\ flood = FloodIdle
    /\ compose = ComposeIdle
    /\ replay = ReplayIdle
    /\ stroke = StrokeIdle
    /\ stroke_cell = None
    /\ last_input = [op |-> "new", had_event |-> FALSE, redo_len |-> 0, start_cell |-> None]
    /\ n_inputs = 0

(***************************************************************************)
(* Handlers.                                                               *)
(***************************************************************************)
\* A faulty palette press: the stored eyedrop cell is kept.
PalettePressKeepsEyedrop(row, index) ==
    /\ Accepting
    /\ palette_indices' = [palette_indices EXCEPT ![row] = Some(index)]
    /\ UNCHANGED <<tool_index, canvas_state, current_event, undo_buffer,
                   eyedrop_render_cell, fg_opacity, bg_opacity, panicked>>
    /\ Observe("palette_press")

\* PaletteComponent::update on MousePress{Left}: the press is in the row
\* `row` of the palette, on the cell of PaletteIndex `index`
PalettePress(row, index) ==
    /\ Accepting
    /\ palette_indices' = [palette_indices EXCEPT ![row] = Some(index)]
    /\ eyedrop_render_cell' = None
    /\ UNCHANGED <<tool_index, canvas_state, current_event, undo_buffer,
                   fg_opacity, bg_opacity, panicked>>
    /\ Observe("palette_press")

\* ToolsComponent::update on MousePress{Left} on line i of the tool list
ToolsPress(i) ==
    /\ Accepting
    /\ tool_index' = i
    /\ UNCHANGED <<palette_indices, canvas_state, current_event, undo_buffer,
                   eyedrop_render_cell, fg_opacity, bg_opacity, panicked>>
    /\ Observe("tools_press")

\* the Eyedrop arm of CanvasComponent::update: [eyedrop, indices] after it
EyedropPick(coord) ==
    IF coord \in DOMAIN canvas_state
    THEN [eyedrop |-> Some(canvas_state[coord]), indices |-> NoPaletteIndices]
    ELSE [eyedrop |-> eyedrop_render_cell, indices |-> palette_indices]

\* A faulty MousePress arm: an event already in progress is kept and moved to
\* the coordinate of the press instead of being replaced.
CanvasPressKeepsEvent(coord) ==
    /\ Accepting
    /\ IF CurrentTool = "Eyedrop"
       THEN /\ eyedrop_render_cell' = EyedropPick(coord).eyedrop
            /\ palette_indices' = EyedropPick(coord).indices
            /\ UNCHANGED current_event
       ELSE /\ current_event' = IF IsSome(current_event)
                                THEN Some(DrawingEventMouseMove(Unwrap(current_event), coord))
                                ELSE ToolNewEvent(CurrentTool, coord)
            /\ UNCHANGED <<eyedrop_render_cell, palette_indices>>
    /\ UNCHANGED <<tool_index, canvas_state, undo_buffer, fg_opacity, bg_opacity, panicked>>
    /\ Observe("canvas_press")

\* CanvasComponent::update on MousePress{Left} at canvas coordinate coord
CanvasPress(coord) ==
    /\ Accepting
    /\ IF CurrentTool = "Eyedrop"
       THEN /\ eyedrop_render_cell' = EyedropPick(coord).eyedrop
            /\ palette_indices' = EyedropPick(coord).indices
            /\ UNCHANGED current_event
       ELSE /\ current_event' = ToolNewEvent(CurrentTool, coord)
            /\ UNCHANGED <<eyedrop_render_cell, palette_indices>>
    /\ UNCHANGED <<tool_index, canvas_state, undo_buffer, fg_opacity, bg_opacity, panicked>>
    /\ Observe("canvas_press")

\* GuiComponent::update on MouseMove{button: Some(Left)}: CanvasComponent::update
\* runs first when the pointer is over the canvas, then the event in progress
\* is moved to the canvas-relative coordinate
MouseMoveLeft(coord) ==
    /\ Accepting
    /\ IF CurrentTool = "Eyedrop" /\ coord \in CanvasCoords
       THEN /\ eyedrop_render_cell' = EyedropPick(coord).eyedrop
            /\ palette_indices' = EyedropPick(coord).indices
       ELSE UNCHANGED <<eyedrop_render_cell, palette_indices>>
    /\ current_event' = IF IsSome(current_event)
                        THEN Some(DrawingEventMouseMove(Unwrap(current_event), coord))
                        ELSE current_event
    /\ UNCHANGED <<tool_index, canvas_state, undo_buffer, fg_opacity, bg_opacity, panicked>>
    /\ Observe("mouse_move")

\* A faulty commit_current_event: the event is handed to the undo buffer but
\* not applied to the committed raster.
CommitCurrentEventNotApplied ==
    IF IsSome(current_event)
    THEN LET event == DrawingEventWithRenderCell(Unwrap(current_event), CurrentRenderCell)
             r == RasterCommitEvent(canvas_state, event)
         IN  [panicked |-> r.panicked,
              canvas |-> canvas_state,
              ub |-> IF r.panicked THEN undo_buffer
                     ELSE UndoBufferCommitEvent(undo_buffer, event),
              event |-> None]
    ELSE [panicked |-> FALSE, canvas |-> canvas_state, ub |-> undo_buffer,
          event |-> current_event]

\* A commit_current_event that commits with the style selected when the
\* stroke began instead of the style selected now.
CommitCurrentEventWithStartStyle ==
    IF IsSome(current_event)
    THEN LET event == DrawingEventWithRenderCell(Unwrap(current_event), Unwrap(stroke_cell))
             r == RasterCommitEvent(canvas_state, event)
         IN  [panicked |-> r.panicked,
              canvas |-> r.grid,
              ub |-> IF r.panicked THEN undo_buffer
                     ELSE UndoBufferCommitEvent(undo_buffer, event),
              event |-> None]
    ELSE [panicked |-> FALSE, canvas |-> canvas_state, ub |-> undo_buffer,
          event |-> current_event]

\* A faulty commit_current_event: the event is read with as_ref instead of
\* take, so it stays in progress after the commit.
CommitCurrentEventKeepsEvent ==
    IF IsSome(current_event)
    THEN LET event == DrawingEventWithRenderCell(Unwrap(current_event), CurrentRenderCell)
             r == RasterCommitEvent(canvas_state, event)
         IN  [panicked |-> r.panicked,
              canvas |-> r.grid,
              ub |-> IF r.panicked THEN undo_buffer
                     ELSE UndoBufferCommitEvent(undo_buffer, event),
              event |-> current_event]
    ELSE [panicked |-> FALSE, canvas |-> canvas_state, ub |-> undo_buffer,
          event |-> current_event]

\* A faulty commit_current_event: with no event in progress it still clears
\* the redo buffer.
CommitCurrentEventAlwaysClearsRedo ==
    IF IsSome(current_event)
    THEN LET event == DrawingEventWithRenderCell(Unwrap(current_event), CurrentRenderCell)
             r == RasterCommitEvent(canvas_state, event)
         IN  [panicked |-> r.panicked,
              canvas |-> r.grid,
              ub |-> IF r.panicked THEN undo_buffer
                     ELSE UndoBufferCommitEvent(undo_buffer, event),
              event |-> None]
    ELSE [panicked |-> FALSE, canvas |-> canvas_state,
          ub |-> [undo_buffer EXCEPT !.redo_buffer = <<>>],
          event |-> current_event]

\* AppData::commit_current_event: [panicked, canvas, ub, event] after it
CommitCurrentEvent ==
    IF IsSome(current_event)
    THEN LET event == DrawingEventWithRenderCell(Unwrap(current_event), CurrentRenderCell)
             r == RasterCommitEvent(canvas_state, event)
         IN  [panicked |-> r.panicked,
              canvas |-> r.grid,
              ub |-> IF r.panicked THEN undo_buffer
                     ELSE UndoBufferCommitEvent(undo_buffer, event),
              event |-> None]
    ELSE [panicked |-> FALSE, canvas |-> canvas_state, ub |-> undo_buffer,
          event |-> current_event]

\* GuiComponent::update on MouseRelease
MouseRelease ==
    /\ Accepting
    /\ panicked' = CommitCurrentEvent.panicked
    /\ canvas_state' = CommitCurrentEvent.canvas
    /\ undo_buffer' = CommitCurrentEvent.ub
    /\ current_event' = CommitCurrentEvent.event
    /\ UNCHANGED <<palette_indices, tool_index, eyedrop_render_cell, fg_opacity, bg_opacity>>
    /\ Observe("mouse_release")

\* AppData::undo, on KeyboardInput::Char('u')
Undo ==
    /\ Accepting
    /\ panicked' = UndoBufferUndo(undo_buffer).panicked
    /\ canvas_state' = UndoBufferUndo(undo_buffer).raster
    /\ undo_buffer' = UndoBufferUndo(undo_buffer).ub
    /\ UNCHANGED <<palette_indices, tool_index, current_event, eyedrop_render_cell,
                   fg_opacity, bg_opacity>>
    /\ Observe("undo")

\* AppData::redo, on KeyboardInput::Char('r')
Redo ==
    /\ Accepting
    /\ panicked' = UndoBufferRedo(undo_buffer).panicked
    /\ canvas_state' = UndoBufferRedo(undo_buffer).raster
    /\ undo_buffer' = UndoBufferRedo(undo_buffer).ub
    /\ UNCHANGED <<palette_indices, tool_index, current_event, eyedrop_render_cell,
                   fg_opacity, bg_opacity>>
    /\ Observe("redo")

\* app_loop: the foreground opacity dialog returns Some(opacity)
SetFgOpacity(opacity) ==
    /\ Accepting
    /\ fg_opacity' = opacity
    /\ UNCHANGED <<palette_indices, tool_index, canvas_state, current_event, undo_buffer,
                   eyedrop_render_cell, bg_opacity, panicked>>
    /\ Observe("fg_opacity")

\* app_loop: the background opacity dialog returns Some(opacity)
SetBgOpacity(opacity) ==
    /\ Accepting
    /\ bg_opacity' = opacity
    /\ UNCHANGED <<palette_indices, tool_index, canvas_state, current_event, undo_buffer,
                   eyedrop_render_cell, fg_opacity, panicked>>
    /\ Observe("bg_opacity")

\* DrawingEvent::preview aborts exactly when FillEvent::preview calls
\* flood_fill with a seed outside the grid
PreviewPanics(ev, grid) ==
    ev.tag = "Fill" /\ FloodFill(grid, ev.start).panicked

\* CanvasComponent::render: draws the committed raster and the preview of
\* the event in progress into the frame buffer; the session is only read
Render ==
    /\ Accepting
    /\ panicked' = (IsSome(current_event) /\ PreviewPanics(Unwrap(current_event), canvas_state))
    /\ UNCHANGED <<palette_indices, tool_index, canvas_state, current_event, undo_buffer,
                   eyedrop_render_cell, fg_opacity, bg_opacity>>
    /\ Observe("render")

Next ==
    \/ \E p \in PalettePresses : PalettePress(p[1], p[2])
    \/ \E i \in 0 .. Len(Tools) - 1 : ToolsPress(i)
    \/ \E c \in PressCoords : CanvasPress(c)
    \/ \E c \in MoveCoords : MouseMoveLeft(c)
    \/ MouseRelease
    \/ Undo
    \/ Redo
    \/ \E o \in OpacityValues : SetFgOpacity(o)
    \/ \E o \in OpacityValues : SetBgOpacity(o)
    \/ Render

Spec == Init /\ [][Next]_vars

(***************************************************************************)
(* Raster::flood_fill by itself, one loop iteration per step, on every     *)
(* raster over FloodCells.                                                 *)
(***************************************************************************)
FloodCoords == SizeCoords(FloodWidth, FloodHeight)
\* the blank cell, and the cell a blank cell becomes when the style of a fresh
\* session is painted on it: the two differ in the foreground only
FloodCells == {BlankCell,
               StackRenderCells(BlankCell, RenderCell(None, None, None, None, None))}
\* the seeds flood_fill is called with: every cell, and one coordinate left
\* of, above, right of and below the grid
FloodSeeds == FloodCoords \cup {<<-1, 0>>, <<0, -1>>, <<FloodWidth, 0>>, <<0, FloodHeight>>}

InitFlood ==
    /\ canvas_state \in [FloodCoords -> FloodCells]
    /\ undo_buffer = UndoBufferNew(canvas_state)
    /\ palette_indices = NoPaletteIndices
    /\ tool_index = 0
    /\ current_event = None
    /\ eyedrop_render_cell = None
    /\ fg_opacity = 255
    /\ bg_opacity = 255
    /\ panicked = FALSE
    /\ flood = FloodIdle
    /\ compose = ComposeIdle
    /\ replay = ReplayIdle
    /\ stroke = StrokeIdle
    /\ stroke_cell = None
    /\ last_input = [op |-> "new", had_event |-> FALSE, redo_len |-> 0, start_cell |-> None]
    /\ n_inputs = 0

\* A faulty flood_fill: for a seed outside the grid it returns the empty region.
FloodFillCallReturnsEmpty(seed) ==
    /\ flood.pc = "idle"
    /\ flood' = IF seed \notin DOMAIN canvas_state
                THEN [pc |-> "done", seed |-> seed, initial_cell |-> BlankCell,
                      queue |-> <<>>, seen |-> {}, pops |-> 0]
                ELSE [pc |-> "loop", seed |-> seed, initial_cell |-> canvas_state[seed],
                      queue |-> <<seed>>, seen |-> {seed}, pops |-> 0]
    /\ UNCHANGED <<drawing, compose, replay, stroke, stroke_cell, last_input, n_inputs>>

\* flood_fill up to the while loop: get_checked, push_front, insert
FloodFillCall(seed) ==
    /\ flood.pc = "idle"
    /\ flood' = IF seed \notin DOMAIN canvas_state
                THEN [pc |-> "panicked", seed |-> seed]
                ELSE [pc |-> "loop", seed |-> seed, initial_cell |-> canvas_state[seed],
                      queue |-> <<seed>>, seen |-> {seed}, pops |-> 0]
    /\ UNCHANGED <<drawing, compose, replay, stroke, stroke_cell, last_input, n_inputs>>

\* one iteration of the while loop
FloodFillIterate ==
    /\ flood.pc = "loop"
    /\ flood.queue # <<>>
    /\ LET st == FloodStep(canvas_state, flood.initial_cell,
                           [queue |-> flood.queue, seen |-> flood.seen])
       IN  flood' = [flood EXCEPT !.queue = st.queue, !.seen = st.seen, !.pops = @ + 1]
    /\ UNCHANGED <<drawing, compose, replay, stroke, stroke_cell, last_input, n_inputs>>

\* the queue is empty: flood_fill returns seen
FloodFillReturn ==
    /\ flood.pc = "loop"
    /\ flood.queue = <<>>
    /\ flood' = [flood EXCEPT !.pc = "done"]
    /\ UNCHANGED <<drawing, compose, replay, stroke, stroke_cell, last_input, n_inputs>>

NextFlood ==
    \/ \E seed \in FloodSeeds : FloodFillCall(seed)
    \/ FloodFillIterate
    \/ FloodFillReturn

SpecFlood == InitFlood /\ [][NextFlood]_vars



\* every raster over FloodCells of TermWidth by TermHeight cells
InitFloodFair ==
    /\ canvas_state \in [SizeCoords(TermWidth, TermHeight) -> FloodCells]
    /\ undo_buffer = UndoBufferNew(canvas_state)
    /\ palette_indices = NoPaletteIndices
    /\ tool_index = 0
    /\ current_event = None
    /\ eyedrop_render_cell = None
    /\ fg_opacity = 255
    /\ bg_opacity = 255
    /\ panicked = FALSE
    /\ flood = FloodIdle
    /\ compose = ComposeIdle
    /\ replay = ReplayIdle
    /\ stroke = StrokeIdle
    /\ stroke_cell = None
    /\ last_input = [op |-> "new", had_event |-> FALSE, redo_len |-> 0, start_cell |-> None]
    /\ n_inputs = 0

\* flood_fill is sequential code: once called, its loop keeps running and it
\* returns when the loop is left.
SpecFloodFair ==
    /\ InitFloodFair
    /\ [][NextFlood]_vars
    /\ WF_vars(FloodFillIterate)
    /\ WF_vars(FloodFillReturn)

(***************************************************************************)
(* Raster::stack_render_cells by itself, called with every pair of         *)
(* ComposeCells.                                                           *)
(***************************************************************************)
\* colours of the cells: an opaque and a translucent one per channel
ComposeForegrounds == {Rgba32(0, 200, 0, 255), Rgba32(0, 200, 0, 127)}
ComposeBackgrounds == {NewGrey(0), Rgba32(200, 0, 0, 127)}
OptionsOf(S) == {None} \cup {Some(x) : x \in S}
ComposeCells ==
    {RenderCell(ch, fg, bg, bold, underline) :
        ch \in OptionsOf({"a"}),
        fg \in OptionsOf(ComposeForegrounds),
        bg \in OptionsOf(ComposeBackgrounds),
        bold \in OptionsOf(BOOLEAN),
        underline \in OptionsOf(BOOLEAN)}

InitCompose ==
    /\ compose \in [pc : {"called"}, bottom : ComposeCells, top : ComposeCells]
    /\ replay = ReplayIdle
    /\ palette_indices = NoPaletteIndices
    /\ tool_index = 0
    /\ canvas_state = RasterNew(CanvasWidth, CanvasHeight)
    /\ current_event = None
    /\ undo_buffer = UndoBufferNew(canvas_state)
    /\ eyedrop_render_cell = None
    /\ fg_opacity = 255
    /\ bg_opacity = 255
    /\ panicked = FALSE
    /\ flood = FloodIdle
    /\ stroke = StrokeIdle
    /\ stroke_cell = None
    /\ last_input = [op |-> "new", had_event |-> FALSE, redo_len |-> 0, start_cell |-> None]
    /\ n_inputs = 0

\* the call stack_render_cells(bottom, top) returns
StackRenderCellsReturn ==
    /\ compose.pc = "called"
    /\ compose' = [pc |-> "done", bottom |-> compose.bottom, top |-> compose.top,
                   ret |-> StackRenderCells(compose.bottom, compose.top)]
    /\ UNCHANGED <<drawing, flood, replay, stroke, stroke_cell, last_input, n_inputs>>

NextCompose == StackRenderCellsReturn

SpecCompose == InitCompose /\ [][NextCompose]_vars

(***************************************************************************)
(* One stroke by itself: Tool::new_event, DrawingEvent::mouse_move any     *)
(* number of times, commit_current_event, for every tool, on sessions that *)
(* have painted before.  stroke records the calls: the coordinate of the   *)
(* press, the coordinates of the moves and, from the commit on, the raster *)
(* the commit found and the edit it stored.                                *)
(***************************************************************************)
StrokeCoords == SizeCoords(StrokeWidth, StrokeHeight)
\* where the stroke is begun
StrokePressCoords == {<<0, 0>>, <<2, 1>>}
\* where it is dragged to: on the canvas and left of it
StrokeMoveCoords == {<<0, 0>>, <<3, 0>>, <<1, 1>>, <<-1, 0>>}
\* the styles selected during the stroke: the first background colour alone,
\* or the glyph with the foreground colour, opaque or at opacity 127
StrokePaletteIndices ==
    {[ch |-> None, fg |-> None, bg |-> Some(PaletteIndexOf(1))],
     [ch |-> Some(PaletteIndexOf(1)), fg |-> Some(PaletteIndexOf(1)), bg |-> None]}
StrokeOpacities == {255, 127}

\* edits committed earlier in the session: a translucent vertical line in
\* column 1 from top to bottom, and an opaque fill of the blank canvas with
\* the second background colour
WallEdit ==
    DrawingEventWithRenderCell(
        LineMouseMove(LineMousePress(<<1, 0>>), <<1, StrokeHeight - 1>>),
        RenderCellOf(None, [ch |-> None, fg |-> None, bg |-> Some(PaletteIndexOf(1))], 255, 127))
FilledEdit ==
    DrawingEventWithRenderCell(
        FillMousePress(<<0, 0>>),
        RenderCellOf(None, [ch |-> None, fg |-> None, bg |-> Some(PaletteIndexOf(2))], 255, 255))
StrokeHistories == {<<>>, <<WallEdit>>, <<FilledEdit>>}

InitStroke ==
    /\ tool_index \in 0 .. 3
    /\ palette_indices \in StrokePaletteIndices
    /\ fg_opacity \in StrokeOpacities
    /\ bg_opacity = fg_opacity
    /\ undo_buffer \in {[initial |-> RasterNew(StrokeWidth, StrokeHeight),
                         events |-> h, redo_buffer |-> <<>>] : h \in StrokeHistories}
    /\ canvas_state = Replay(undo_buffer.initial, undo_buffer.events).grid
    /\ current_event = None
    /\ eyedrop_render_cell = None
    /\ panicked = FALSE
    /\ flood = FloodIdle
    /\ compose = ComposeIdle
    /\ replay = ReplayIdle
    /\ stroke = StrokeIdle
    /\ stroke_cell = None
    /\ last_input = [op |-> "new", had_event |-> FALSE, redo_len |-> 0, start_cell |-> None]
    /\ n_inputs = 0

\* the MousePress arm of CanvasComponent::update for a drawing tool
StrokeStart(coord) ==
    /\ stroke.pc = "idle"
    /\ current_event' = ToolNewEvent(CurrentTool, coord)
    /\ stroke' = [pc |-> "drawing", start |-> coord, moves |-> <<>>, frame |-> None]
    /\ UNCHANGED <<palette_indices, tool_index, canvas_state, undo_buffer,
                   eyedrop_render_cell, fg_opacity, bg_opacity, panicked>>
    /\ UNCHANGED <<flood, compose, replay, stroke_cell, last_input, n_inputs>>

\* the MouseMove arm of GuiComponent::update with an event in progress
StrokeContinue(coord) ==
    /\ stroke.pc = "drawing"
    /\ Len(stroke.moves) < MaxMoves
    /\ current_event' = Some(DrawingEventMouseMove(Unwrap(current_event), coord))
    /\ stroke' = [stroke EXCEPT !.moves = Append(@, coord), !.frame = None]
    /\ UNCHANGED <<palette_indices, tool_index, canvas_state, undo_buffer,
                   eyedrop_render_cell, fg_opacity, bg_opacity, panicked>>
    /\ UNCHANGED <<flood, compose, replay, stroke_cell, last_input, n_inputs>>

\* commit_current_event with an event in progress
StrokeCommit ==
    /\ stroke.pc = "drawing"
    /\ panicked' = CommitCurrentEvent.panicked
    /\ canvas_state' = CommitCurrentEvent.canvas
    /\ undo_buffer' = CommitCurrentEvent.ub
    /\ current_event' = CommitCurrentEvent.event
    /\ stroke' = [pc |-> IF CommitCurrentEvent.panicked THEN "panicked" ELSE "committed",
                  start |-> stroke.start, moves |-> stroke.moves,
                  before |-> canvas_state,
                  event |-> Unwrap(current_event),
                  render_cell |-> CurrentRenderCell,
                  frame |-> None]
    /\ UNCHANGED <<palette_indices, tool_index, eyedrop_render_cell, fg_opacity, bg_opacity>>
    /\ UNCHANGED <<flood, compose, replay, stroke_cell, last_input, n_inputs>>

\* where the pointer is when a frame is drawn: off the canvas, or on a cell
\* of the canvas (canvas_hover is set by every mouse input, also by moves with
\* no button held, which change nothing else)
StrokeHovers == {None, Some(<<0, 0>>), Some(<<1, 0>>)}

\* CanvasComponent::render; stroke.frame records the frame it drew and the
\* hover it drew it with, until the next call of the stroke
StrokeRender(hover) ==
    /\ stroke.pc \in {"idle", "drawing", "committed"}
    /\ LET r == CanvasComponentRender(canvas_state, current_event, CurrentRenderCell, hover)
       IN  /\ panicked' = r.panicked
           /\ stroke' = IF r.panicked
                        THEN [stroke EXCEPT !.pc = "panicked", !.frame = None]
                        ELSE [stroke EXCEPT !.frame = Some([fb |-> r.fb, hover |-> hover])]
    /\ UNCHANGED <<palette_indices, tool_index, canvas_state, current_event, undo_buffer,
                   eyedrop_render_cell, fg_opacity, bg_opacity>>
    /\ UNCHANGED <<flood, compose, replay, stroke_cell, last_input, n_inputs>>

NextStroke ==
    \/ \E c \in StrokePressCoords : StrokeStart(c)
    \/ \E c \in StrokeMoveCoords : StrokeContinue(c)
    \/ StrokeCommit
    \/ \E hover \in StrokeHovers : StrokeRender(hover)

SpecStroke == InitStroke /\ [][NextStroke]_vars

(***************************************************************************)
(* The replay of a history by itself, one write to the raster per step:    *)
(* the loop over self.events in UndoBuffer::undo and redo, in it           *)
(* Raster::commit_event, in it the loop of the event's commit.  The        *)
(* iteration order of a HashMap or HashSet is not specified, so the loops  *)
(* of Pencil, Fill and Erase take their entries in any order.              *)
(***************************************************************************)
\* edits of a history: a translucent pencil stroke along the top row that
\* turns back and ends left of the raster, an erase stroke down column 1, an
\* opaque fill from (0,0), and a diagonal line of glyphs
ReplayEdits ==
    {DrawingEventWithRenderCell(
         PencilMouseMove(PencilMouseMove(PencilMousePress(<<0, 0>>), <<ReplayWidth - 1, 0>>),
                         <<-1, 0>>),
         RenderCellOf(None, [ch |-> None, fg |-> None, bg |-> Some(PaletteIndexOf(1))], 255, 127)),
     DrawingEventWithRenderCell(
         EraseMouseMove(EraseMousePress(<<1, 0>>), <<1, ReplayHeight - 1>>),
         BlankCell),
     FilledEdit,
     DrawingEventWithRenderCell(
         LineMouseMove(LineMousePress(<<0, ReplayHeight - 1>>), <<ReplayWidth - 1, 0>>),
         RenderCellOf(None, [ch |-> Some(PaletteIndexOf(1)), fg |-> Some(PaletteIndexOf(1)),
                             bg |-> None], 127, 255))}
\* the histories replayed: every two edits in a row
ReplayHistories == {<<a, b>> : a, b \in ReplayEdits}

InitReplay ==
    /\ undo_buffer \in {[initial |-> RasterNew(ReplayWidth, ReplayHeight),
                         events |-> h, redo_buffer |-> <<>>] : h \in ReplayHistories}
    /\ canvas_state = Replay(undo_buffer.initial, undo_buffer.events).grid
    /\ palette_indices = NoPaletteIndices
    /\ tool_index = 0
    /\ current_event = None
    /\ eyedrop_render_cell = None
    /\ fg_opacity = 255
    /\ bg_opacity = 255
    /\ panicked = FALSE
    /\ flood = FloodIdle
    /\ compose = ComposeIdle
    /\ replay = ReplayIdle
    /\ stroke = StrokeIdle
    /\ stroke_cell = None
    /\ last_input = [op |-> "new", had_event |-> FALSE, redo_len |-> 0, start_cell |-> None]
    /\ n_inputs = 0

\* let mut raster = self.initial.clone(), and the for loop is entered
ReplayCall ==
    /\ replay.pc = "idle"
    /\ replay' = [pc |-> "events", raster |-> undo_buffer.initial, next |-> 1]
    /\ UNCHANGED <<drawing, flood, compose, stroke, stroke_cell, last_input, n_inputs>>

\* raster.commit_event(event) up to the loop of the event's commit: the
\* entries the loop will take, a set for Pencil, Fill and Erase and the
\* segment for Line
CommitEventCall ==
    /\ replay.pc = "events"
    /\ replay.next <= Len(undo_buffer.events)
    /\ LET ev == undo_buffer.events[replay.next].drawing_event
           region == FloodFill(replay.raster, ev.start)
       IN  replay' =
             CASE ev.tag = "Pencil" ->
                    [replay EXCEPT !.pc = "commit"] @@ [todo |-> DOMAIN ev.coords, path |-> <<>>]
               [] ev.tag = "Erase" ->
                    [replay EXCEPT !.pc = "commit"] @@ [todo |-> ev.coords, path |-> <<>>]
               [] ev.tag = "Line" ->
                    [replay EXCEPT !.pc = "commit"]
                        @@ [todo |-> {}, path |-> CoordsBetween(ev.start, ev.end)]
               [] ev.tag = "Fill" ->
                    IF region.panicked
                    THEN [replay EXCEPT !.pc = "panicked"]
                    ELSE [replay EXCEPT !.pc = "commit"] @@ [todo |-> region.seen, path |-> <<>>]
    /\ UNCHANGED <<drawing, flood, compose, stroke, stroke_cell, last_input, n_inputs>>

\* one iteration of the loop of PencilEvent::commit, FillEvent::commit or
\* EraseEvent::commit, for the entry the iterator yields
CommitEventIterate(coord) ==
    /\ replay.pc = "commit"
    /\ coord \in replay.todo
    /\ LET event == undo_buffer.events[replay.next]
           ev == event.drawing_event
       IN  replay' =
             [replay EXCEPT
                !.todo = @ \ {coord},
                !.raster =
                   CASE ev.tag = "Pencil" ->
                          SetCoordTimes(@, coord, event.render_cell, ev.coords[coord])
                     [] ev.tag = "Fill" -> SetCoord(@, coord, event.render_cell)
                     [] ev.tag = "Erase" -> ClearCoord(@, coord)]
    /\ UNCHANGED <<drawing, flood, compose, stroke, stroke_cell, last_input, n_inputs>>

\* one iteration of the loop of LineEvent::commit
CommitEventIterateLine ==
    /\ replay.pc = "commit"
    /\ replay.path # <<>>
    /\ replay' = [replay EXCEPT
                    !.path = Tail(@),
                    !.raster = SetCoord(@, Head(replay.path),
                                        undo_buffer.events[replay.next].render_cell)]
    /\ UNCHANGED <<drawing, flood, compose, stroke, stroke_cell, last_input, n_inputs>>

\* the loop of the commit is left: commit_event returns
CommitEventReturn ==
    /\ replay.pc = "commit"
    /\ replay.todo = {}
    /\ replay.path = <<>>
    /\ replay' = [pc |-> "events", raster |-> replay.raster, next |-> replay.next + 1]
    /\ UNCHANGED <<drawing, flood, compose, stroke, stroke_cell, last_input, n_inputs>>

\* the loop over the events is left: the raster is returned
ReplayReturn ==
    /\ replay.pc = "events"
    /\ replay.next > Len(undo_buffer.events)
    /\ replay' = [pc |-> "done", raster |-> replay.raster]
    /\ UNCHANGED <<drawing, flood, compose, stroke, stroke_cell, last_input, n_inputs>>

NextReplay ==
    \/ ReplayCall
    \/ CommitEventCall
    \/ \E coord \in SizeCoords(ReplayWidth, ReplayHeight) \cup {<<-1, 0>>} :
          CommitEventIterate(coord)
    \/ CommitEventIterateLine
    \/ CommitEventReturn
    \/ ReplayReturn

SpecReplay == InitReplay /\ [][NextReplay]_vars

(***************************************************************************)
(* Undo and redo by themselves, on sessions that have committed three      *)
(* edits (DrawingState is stored and loaded with its undo buffer).         *)
(***************************************************************************)
\* the histories of the sessions: every three different edits in a row
UndoHistories ==
    {h \in {<<a, b, c>> : a, b, c \in ReplayEdits} : h[1] # h[2] /\ h[2] # h[3] /\ h[1] # h[3]}

InitUndo ==
    /\ undo_buffer \in {[initial |-> RasterNew(CanvasWidth, CanvasHeight),
                         events |-> h, redo_buffer |-> <<>>] : h \in UndoHistories}
    /\ canvas_state = Replay(undo_buffer.initial, undo_buffer.events).grid
    /\ palette_indices = NoPaletteIndices
    /\ tool_index = 0
    /\ current_event = None
    /\ eyedrop_render_cell = None
    /\ fg_opacity = 255
    /\ bg_opacity = 255
    /\ panicked = FALSE
    /\ flood = FloodIdle
    /\ compose = ComposeIdle
    /\ replay = ReplayIdle
    /\ stroke = StrokeIdle
    /\ stroke_cell = None
    /\ last_input = [op |-> "new", had_event |-> FALSE, redo_len |-> 0, start_cell |-> None]
    /\ n_inputs = 0

NextUndo == Undo \/ Redo

SpecUndo == InitUndo /\ [][NextUndo]_vars

(***************************************************************************)
(* Properties of the session and of the undo buffer.                       *)
(***************************************************************************)
Last(seq) == seq[Len(seq)]
ButLast(seq) == SubSeq(seq, 1, Len(seq) - 1)

\* the latest pointer position a stroke was given
StrokeLatest == IF stroke.moves = <<>> THEN stroke.start ELSE Last(stroke.moves)

\* C1: in every state the session reaches by presses, drags, releases, undo
\* and redo (also undo and redo while a stroke is in progress), the committed
\* raster equals the replay of the undo buffer's history, in stored order,
\* onto the undo buffer's initial raster.
C1_CanvasIsReplayOfHistory ==
    ~panicked =>
        LET r == Replay(undo_buffer.initial, undo_buffer.events)
        IN  ~r.panicked /\ canvas_state = r.grid

\* a redo issued while a stroke was in progress restored a visible edit
C1_Witness ==
    /\ last_input.op = "redo"
    /\ last_input.had_event
    /\ last_input.redo_len > 0
    /\ canvas_state # undo_buffer.initial

\* C2: with a non-empty history, undo() followed immediately by redo() returns
\* the committed raster from before the undo and leaves the history as it was.
C2_UndoThenRedoRestores ==
    (~panicked /\ undo_buffer.events # <<>>) =>
        LET u == UndoBufferUndo(undo_buffer)
            r == UndoBufferRedo(u.ub)
        IN  /\ r.raster = canvas_state
            /\ r.ub.events = undo_buffer.events

\* a redo has just put back what an undo took off a history of visible edits
C2_Witness ==
    /\ last_input.op = "redo"
    /\ last_input.redo_len > 0
    /\ ~last_input.had_event
    /\ undo_buffer.events # <<>>
    /\ canvas_state # undo_buffer.initial

\* C3: after a commit of a new edit the redo stack is empty, and a redo()
\* issued next returns the same raster and leaves the history unchanged, also
\* when the redo stack was non-empty right before the commit.
C3_CommitClearsRedo ==
    (last_input.op = "mouse_release" /\ last_input.had_event /\ ~panicked) =>
        LET r == UndoBufferRedo(undo_buffer)
        IN  /\ undo_buffer.redo_buffer = <<>>
            /\ r.raster = canvas_state
            /\ r.ub = undo_buffer

\* an edit was committed while the redo stack held an undone edit
C3_Witness ==
    /\ last_input.op = "mouse_release"
    /\ last_input.had_event
    /\ last_input.redo_len > 0
    /\ ~panicked

\* C4: undo() on an empty history returns a raster equal to initial, redo() on
\* an empty redo stack returns the replay of the unchanged history, neither
\* changes history or redo stack, and a repeated call returns the same raster.
C4_EmptyUndoRedoAreNoOps ==
    /\ undo_buffer.events = <<>> =>
          LET u == UndoBufferUndo(undo_buffer)
          IN  /\ ~u.panicked
              /\ u.raster = undo_buffer.initial
              /\ u.ub = undo_buffer
              /\ UndoBufferUndo(u.ub) = u
    /\ undo_buffer.redo_buffer = <<>> =>
          LET r == UndoBufferRedo(undo_buffer)
          IN  /\ ~r.panicked
              /\ r.raster = Replay(undo_buffer.initial, undo_buffer.events).grid
              /\ (~panicked => r.raster = canvas_state)
              /\ r.ub = undo_buffer
              /\ UndoBufferRedo(r.ub) = r

\* redo was issued on an empty redo stack over a history of visible edits
C4_Witness ==
    /\ last_input.op = "redo"
    /\ last_input.redo_len = 0
    /\ undo_buffer.events # <<>>
    /\ canvas_state # undo_buffer.initial

\* C5: undo() on a non-empty history moves exactly the last history entry onto
\* the redo stack and returns the replay of the remaining entries, so earlier
\* edits stay; undoing the only edit returns a raster equal to initial.
C5_UndoRemovesLastEdit ==
    undo_buffer.events # <<>> =>
        LET u == UndoBufferUndo(undo_buffer)
        IN  /\ u.ub.events = ButLast(undo_buffer.events)
            /\ u.ub.redo_buffer = Append(undo_buffer.redo_buffer, Last(undo_buffer.events))
            /\ u.raster = Replay(undo_buffer.initial, ButLast(undo_buffer.events)).grid
            /\ Len(undo_buffer.events) = 1 => u.raster = undo_buffer.initial

\* an undo took the last edit off and an earlier edit is still visible
C5_Witness ==
    /\ last_input.op = "undo"
    /\ undo_buffer.redo_buffer # <<>>
    /\ undo_buffer.events # <<>>
    /\ canvas_state # undo_buffer.initial

\* C6: the undo buffer's initial raster is never modified: after any commits,
\* undos and redos it equals the raster the undo buffer was created with.
C6_InitialNeverModified ==
    undo_buffer.initial = RasterNew(CanvasWidth, CanvasHeight)

\* an undo replayed a visible edit
C6_Witness ==
    /\ last_input.op = "undo"
    /\ undo_buffer.redo_buffer # <<>>
    /\ canvas_state # RasterNew(CanvasWidth, CanvasHeight)
    /\ Len(undo_buffer.events) = 1

RECURSIVE Connected(_, _, _)
\* the cells of value cell reachable from the set reached by cardinal steps
Connected(grid, cell, reached) ==
    LET more == {c \in DOMAIN grid :
                    /\ grid[c] = cell
                    /\ \E d \in reached : Abs(c[1] - d[1]) + Abs(c[2] - d[2]) = 1}
    IN  IF more \subseteq reached THEN reached
        ELSE Connected(grid, cell, reached \cup more)

\* C8: for every raster and in-bounds seed, flood_fill(seed) returns exactly
\* the 4-connected component of the seed among the cells structurally equal to
\* the seed's cell: the seed, every in-bounds cell reachable over equal cells,
\* no cell that differs in a field and no coordinate outside the raster.
C8_FloodFillIsComponent ==
    flood.pc = "done" =>
        /\ flood.seed \in flood.seen
        /\ flood.seen \subseteq DOMAIN canvas_state
        /\ \A c \in flood.seen : canvas_state[c] = canvas_state[flood.seed]
        /\ flood.seen = Connected(canvas_state, canvas_state[flood.seed], {flood.seed})
        /\ FloodFill(canvas_state, flood.seed) = [panicked |-> FALSE, seen |-> flood.seen]

\* a fill returned a region that a differing cell borders and that has to be
\* walked around a corner
C8_Witness ==
    /\ flood.pc = "done"
    /\ Cardinality(flood.seen) >= 3
    /\ flood.seen # DOMAIN canvas_state
    /\ \E c \in flood.seen : c[1] # flood.seed[1] /\ c[2] # flood.seed[2]

\* C9 as stated: flood_fill is only ever called with a seed inside the raster,
\* so no handler aborts, also when a Fill stroke is dragged off the canvas.
\* (panicked is set exactly when get_checked in flood_fill gets such a seed.)
C9_FloodFillSeedInBounds == ~panicked

\* coordinates around the canvas
OutsideCoords ==
    {<<-1, 0>>, <<0, -1>>, <<CanvasWidth, 0>>, <<0, CanvasHeight>>,
     <<CanvasWidth, CanvasHeight - 1>>, <<-1, CanvasHeight>>}

\* C10: set_coord and clear_coord with a coordinate outside the raster leave
\* every cell unchanged, and no raster operation (set, clear, commit, undo,
\* redo) changes the width or height of a raster.
C10_OutOfBoundsWritesAreNoOps ==
    /\ DOMAIN canvas_state = CanvasCoords
    /\ DOMAIN undo_buffer.initial = CanvasCoords
    /\ DOMAIN UndoBufferUndo(undo_buffer).raster = CanvasCoords
    /\ DOMAIN UndoBufferRedo(undo_buffer).raster = CanvasCoords
    /\ \A c \in OutsideCoords :
          /\ SetCoord(canvas_state, c, CurrentRenderCell) = canvas_state
          /\ ClearCoord(canvas_state, c) = canvas_state
    /\ \A c \in CanvasCoords :
          /\ DOMAIN SetCoord(canvas_state, c, CurrentRenderCell) = CanvasCoords
          /\ DOMAIN ClearCoord(canvas_state, c) = CanvasCoords

\* a line that ends left of the canvas was committed
C10_Witness ==
    /\ last_input.op = "mouse_release"
    /\ last_input.had_event
    /\ ~panicked
    /\ Last(undo_buffer.events).drawing_event.tag = "Line"
    /\ Last(undo_buffer.events).drawing_event.end \notin CanvasCoords
    /\ canvas_state # undo_buffer.initial

C12_EraseResetsToFreshCell ==
    (stroke.pc = "committed" /\ stroke.event.tag = "Erase") =>
        /\ stroke.start \in stroke.event.coords
        /\ \A c \in DOMAIN canvas_state :
              canvas_state[c] = IF c \in stroke.event.coords
                                THEN RasterNew(StrokeWidth, StrokeHeight)[c]
                                ELSE stroke.before[c]

\* an erase went over a cell with a painted background, and left another
\* painted cell alone
C12_Witness ==
    /\ stroke.pc = "committed"
    /\ stroke.event.tag = "Erase"
    /\ \E c \in stroke.event.coords \cap StrokeCoords :
          /\ stroke.before[c].background # Some(NewGrey(0))
          /\ canvas_state[c] # stroke.before[c]
    /\ \E c \in StrokeCoords \ stroke.event.coords :
          stroke.before[c] # RasterNew(StrokeWidth, StrokeHeight)[c]

(***************************************************************************)
(* Properties of Raster::stack_render_cells.                               *)
(***************************************************************************)
\* C13 as stated: for the background and for the foreground alike, the colour
\* of the result is absent if neither bottom nor top defines that colour and
\* is the defined one, unchanged, if exactly one of them defines it; so a top
\* with no foreground leaves the bottom's foreground as it was.
C13_ColourPassesThrough ==
    compose.pc = "done" =>
        /\ (compose.top.background = None) => (compose.ret.background = compose.bottom.background)
        /\ (compose.bottom.background = None) => (compose.ret.background = compose.top.background)
        /\ (compose.top.foreground = None) => (compose.ret.foreground = compose.bottom.foreground)
        /\ (compose.bottom.foreground = None) => (compose.ret.foreground = compose.top.foreground)

\* the colour the incoming foreground is blended with: the bottom's background
\* when the bottom has no character, else the bottom's foreground
C13_ForegroundBase ==
    IF compose.bottom.character = None
    THEN compose.bottom.background ELSE compose.bottom.foreground

\* C13 as amended: the background of the result is absent if neither cell
\* defines a background and is the defined one, unchanged, if exactly one does.
\* The same holds for the foreground with the bottom's foreground replaced by
\* the blend base (the bottom's background when the bottom has no character,
\* else the bottom's foreground): a top with no foreground leaves the bottom's
\* foreground as it was only when the bottom has a character.
C13_ColourPassesThroughBlendBase ==
    compose.pc = "done" =>
        /\ (compose.top.background = None) => (compose.ret.background = compose.bottom.background)
        /\ (compose.bottom.background = None) => (compose.ret.background = compose.top.background)
        /\ (compose.top.foreground = None) => (compose.ret.foreground = C13_ForegroundBase)
        /\ (C13_ForegroundBase = None) => (compose.ret.foreground = compose.top.foreground)

\* a top without foreground was put on a bottom without character, and the
\* result's foreground is the bottom's background, not the bottom's foreground
C13_Witness ==
    /\ compose.pc = "done"
    /\ compose.top.foreground = None
    /\ compose.bottom.character = None
    /\ compose.bottom.foreground # None
    /\ compose.bottom.background # None
    /\ compose.ret.foreground = compose.bottom.background
    /\ compose.ret.foreground # compose.bottom.foreground

\* C14 as stated: the underline flag of the result is top's underline value if
\* top defines one, else bottom's; neither cell's bold flag has a part in it.
C14_UnderlineTopElseBottom ==
    compose.pc = "done" =>
        compose.ret.underline = IF compose.top.underline # None
                                THEN compose.top.underline
                                ELSE compose.bottom.underline

\* C15: the character of the result is top's character if present, else
\* bottom's, and the bold flag of the result is top's bold value if present,
\* else bottom's.
C15_CharacterAndBoldTopElseBottom ==
    compose.pc = "done" =>
        /\ compose.ret.character = IF compose.top.character # None
                                   THEN compose.top.character
                                   ELSE compose.bottom.character
        /\ compose.ret.bold = IF compose.top.bold # None
                              THEN compose.top.bold
                              ELSE compose.bottom.bold

\* the bottom's character came through a top without one, and the top's bold
\* value replaced a different one of the bottom
C15_Witness ==
    /\ compose.pc = "done"
    /\ compose.top.character = None
    /\ compose.bottom.character = Some("a")
    /\ compose.ret.character = Some("a")
    /\ compose.top.bold = Some(FALSE)
    /\ compose.bottom.bold = Some(TRUE)
    /\ compose.ret.bold = Some(FALSE)

(***************************************************************************)
(* Properties of the DrawingEvent variants.                                *)
(***************************************************************************)
\* C16: in every Pencil event made by mouse_press followed by any sequence of
\* mouse_move calls, every recorded coordinate has a visit-count of at least 1
\* and the coordinate of the press is recorded; after no mouse_move call, or
\* only calls with the coordinate of the press, the event records exactly that
\* coordinate, with visit-count 1.
C16_PencilCountsAtLeastOne ==
    (stroke.pc = "drawing" /\ Unwrap(current_event).tag = "Pencil") =>
        LET ev == Unwrap(current_event)
        IN  /\ \A c \in DOMAIN ev.coords : ev.coords[c] >= 1
            /\ stroke.start \in DOMAIN ev.coords
            /\ (\A i \in 1 .. Len(stroke.moves) : stroke.moves[i] = stroke.start) =>
                  /\ DOMAIN ev.coords = {stroke.start}
                  /\ ev.coords[stroke.start] = 1

\* a pencil stroke was moved twice, both times to the coordinate of its press
C16_Witness ==
    /\ stroke.pc = "drawing"
    /\ Unwrap(current_event).tag = "Pencil"
    /\ Len(stroke.moves) = 2
    /\ \A i \in 1 .. 2 : stroke.moves[i] = stroke.start
    /\ Unwrap(current_event).coords[stroke.start] = 1

\* C17: a Line stroke pressed at s and moved through any coordinates, the last
\* of them e, commits the style exactly once to each coordinate of the
\* rasterized segment from s to e, both endpoints included, and changes no
\* other cell; the segment is a chain of neighbouring coordinates from s to e
\* without repetition, and positions the drag passed through play no part.  On
\* a blank raster a line from (0,0) to (3,0) changes exactly the four cells
\* (0,0), (1,0), (2,0), (3,0).
C17_LineCommitsSegmentOnce ==
    (stroke.pc = "committed" /\ stroke.event.tag = "Line") =>
        LET s == stroke.start
            e == StrokeLatest
            seg == CoordsBetween(s, e)
            changed == {c \in DOMAIN canvas_state : canvas_state[c] # stroke.before[c]}
        IN  /\ stroke.event.start = s
            /\ stroke.event.end = e
            /\ seg[1] = s
            /\ seg[Len(seg)] = e
            /\ Len(seg) = 1 + (IF Abs(e[1] - s[1]) > Abs(e[2] - s[2])
                               THEN Abs(e[1] - s[1]) ELSE Abs(e[2] - s[2]))
            /\ \A i \in 1 .. Len(seg) - 1 :
                  /\ Abs(seg[i + 1][1] - seg[i][1]) <= 1
                  /\ Abs(seg[i + 1][2] - seg[i][2]) <= 1
                  /\ seg[i + 1] # seg[i]
            /\ \A i, j \in 1 .. Len(seg) : seg[i] = seg[j] => i = j
            /\ \A c \in DOMAIN canvas_state :
                  canvas_state[c] = IF c \in SeqToSet(seg)
                                    THEN StackRenderCells(stroke.before[c], stroke.render_cell)
                                    ELSE stroke.before[c]
            /\ (s = <<0, 0>> /\ e = <<3, 0>>
                  /\ stroke.before = RasterNew(StrokeWidth, StrokeHeight)) =>
                  changed = {<<0, 0>>, <<1, 0>>, <<2, 0>>, <<3, 0>>}

\* a line pressed at (0,0), dragged over (1,1) and released at (3,0) was
\* committed on a blank raster in a translucent style
C17_Witness ==
    /\ stroke.pc = "committed"
    /\ stroke.event.tag = "Line"
    /\ stroke.start = <<0, 0>>
    /\ stroke.moves = <<<<1, 1>>, <<3, 0>>>>
    /\ stroke.before = RasterNew(StrokeWidth, StrokeHeight)
    /\ stroke.render_cell.background = Some(Rgba32(200, 0, 0, 127))
    /\ canvas_state[<<1, 1>>] = stroke.before[<<1, 1>>]
    /\ canvas_state[<<3, 0>>] # stroke.before[<<3, 0>>]
    /\ canvas_state[<<0, 0>>] # stroke.before[<<0, 0>>]

\* the colours a style defines all have alpha 255
C18_Opaque(cell) ==
    /\ cell.background # None \/ cell.foreground # None
    /\ cell.background # None => Unwrap(cell.background)[4] = 255
    /\ cell.foreground # None => Unwrap(cell.foreground)[4] = 255

\* C18: a Fill stroke whose latest pointer position is the in-bounds
\* coordinate c commits by applying the style exactly once to every coordinate
\* of flood_fill(c), computed on the raster the commit finds (the connected
\* region of c among the cells equal to the cell at c), and to no other
\* coordinate; earlier positions of the stroke play no part.  On a raster of
\* equal cells (a blank one, or one an opaque fill has covered) a fill in an
\* opaque style changes every cell.
C18_FillCommitsRegionOnce ==
    (stroke.pc = "committed" /\ stroke.event.tag = "Fill") =>
        LET c == StrokeLatest
            region == Connected(stroke.before, stroke.before[c], {c})
        IN  /\ c \in DOMAIN stroke.before
            /\ stroke.event.start = c
            /\ FloodFill(stroke.before, c) = [panicked |-> FALSE, seen |-> region]
            /\ \A d \in DOMAIN canvas_state :
                  canvas_state[d] = IF d \in region
                                    THEN StackRenderCells(stroke.before[d], stroke.render_cell)
                                    ELSE stroke.before[d]
            /\ ((\A d \in DOMAIN stroke.before : stroke.before[d] = stroke.before[c])
                  /\ C18_Opaque(stroke.render_cell)) =>
                  \A d \in DOMAIN canvas_state : canvas_state[d] # stroke.before[d]

\* a fill pressed left of a painted column and dragged to its right was
\* committed: the region right of the column changed, the cell of the press
\* did not
C18_Witness ==
    /\ stroke.pc = "committed"
    /\ stroke.event.tag = "Fill"
    /\ stroke.start = <<0, 0>>
    /\ StrokeLatest = <<3, 0>>
    /\ stroke.before[<<1, 0>>] # stroke.before[<<0, 0>>]
    /\ canvas_state[<<0, 0>>] = stroke.before[<<0, 0>>]
    /\ canvas_state[<<3, 0>>] # stroke.before[<<3, 0>>]
    /\ canvas_state[<<2, 1>>] # stroke.before[<<2, 1>>]

\* a second fill: an opaque fill was committed on a raster that an earlier
\* opaque fill had covered, and changed every cell of it
C18_SecondFillReached ==
    /\ stroke.pc = "committed"
    /\ stroke.event.tag = "Fill"
    /\ Len(undo_buffer.events) = 2
    /\ undo_buffer.events[1] = FilledEdit
    /\ C18_Opaque(stroke.render_cell)
    /\ StrokeLatest # <<0, 0>>
    /\ \A d \in DOMAIN canvas_state : canvas_state[d] # stroke.before[d]

(***************************************************************************)
(* Properties of the handlers of a stroke.                                 *)
(***************************************************************************)
\* C19: a mouse release with an event in progress (and a commit that does not
\* abort) appends exactly one edit to the history: the history grows by one,
\* its earlier entries stay, and the new last entry holds the event that was in
\* progress; that edit is applied to the committed raster, the redo stack is
\* emptied, and no event is in progress afterwards.
C19_EndStrokeCommitsOneEdit ==
    [][(last_input'.op = "mouse_release" /\ IsSome(current_event) /\ ~panicked') =>
          /\ Len(undo_buffer'.events) = Len(undo_buffer.events) + 1
          /\ ButLast(undo_buffer'.events) = undo_buffer.events
          /\ Last(undo_buffer'.events).drawing_event = Unwrap(current_event)
          /\ canvas_state' = RasterCommitEvent(canvas_state, Last(undo_buffer'.events)).grid
          /\ undo_buffer'.redo_buffer = <<>>
          /\ undo_buffer'.initial = undo_buffer.initial
          /\ current_event' = None]_vars

\* a second stroke was committed on top of a first one
C19_Witness ==
    /\ last_input.op = "mouse_release"
    /\ last_input.had_event
    /\ ~panicked
    /\ Len(undo_buffer.events) = 2
    /\ current_event = None
    /\ canvas_state # undo_buffer.initial

\* C20: a mouse move (button held) and a mouse release with no event in
\* progress change neither the committed raster nor the history nor the redo
\* stack, and leave no event in progress; a release without a stroke does not
\* clear the redo stack.
C20_NoEventNoChange ==
    [][(last_input'.op \in {"mouse_move", "mouse_release"} /\ ~IsSome(current_event)) =>
          /\ canvas_state' = canvas_state
          /\ undo_buffer' = undo_buffer
          /\ current_event' = None
          /\ panicked' = panicked]_vars

\* the button was released with no stroke in progress while the redo stack
\* held an undone edit, and the redo stack still holds it
C20_Witness ==
    /\ last_input.op = "mouse_release"
    /\ ~last_input.had_event
    /\ last_input.redo_len > 0
    /\ Len(undo_buffer.redo_buffer) = last_input.redo_len
    /\ current_event = None

\* C21: a press on the canvas with a drawing tool while an event is already in
\* progress discards that event without committing it: the committed raster,
\* the history and the redo stack are unchanged, and the event in progress
\* afterwards is the fresh event of the selected tool at the coordinate of the
\* press, so nothing the discarded event accumulated can reach a later edit.
C21_BeginDiscardsEventInProgress ==
    [][(last_input'.op = "canvas_press" /\ IsSome(current_event) /\ CurrentTool # "Eyedrop") =>
          /\ canvas_state' = canvas_state
          /\ undo_buffer' = undo_buffer
          /\ panicked' = panicked
          /\ \E c \in PressCoords : current_event' = ToolNewEvent(CurrentTool, c)]_vars

\* the canvas was pressed with a drawing tool while a stroke was in progress,
\* after an edit had been committed
C21_Witness ==
    /\ last_input.op = "canvas_press"
    /\ last_input.had_event
    /\ CurrentTool # "Eyedrop"
    /\ IsSome(current_event)
    /\ undo_buffer.events # <<>>

\* the pointer position an event was given last
C22_Latest(ev) ==
    CASE ev.tag = "Pencil" -> ev.last_coord
      [] ev.tag = "Fill"   -> ev.start
      [] ev.tag = "Line"   -> ev.end
      [] ev.tag = "Erase"  -> ev.last_coord

\* C22 as stated: while the selected tool is Eyedrop, a press or a drag on the
\* canvas creates no event in progress and changes neither the committed
\* raster nor the history nor the redo stack; all it changes of the drawing
\* state is the active paint style, which becomes the committed cell at the
\* picked in-bounds coordinate (every coordinate of the canvas picks its cell).
C22_EyedropOnlyPicksStyle ==
    [][(/\ CurrentTool = "Eyedrop"
        /\ \/ last_input'.op = "canvas_press"
           \/ /\ last_input'.op = "mouse_move"
              /\ IsSome(current_event') => C22_Latest(Unwrap(current_event')) \in CanvasCoords) =>
          /\ current_event' = current_event
          /\ canvas_state' = canvas_state
          /\ undo_buffer' = undo_buffer
          /\ tool_index' = tool_index
          /\ fg_opacity' = fg_opacity
          /\ bg_opacity' = bg_opacity
          /\ panicked' = panicked
          /\ \A c \in CanvasCoords :
                RenderCellOf(EyedropPick(c).eyedrop, EyedropPick(c).indices,
                             fg_opacity, bg_opacity) = canvas_state[c]
          /\ \/ \E c \in CanvasCoords : CurrentRenderCell' = canvas_state[c]
             \/ /\ last_input'.op = "mouse_move"
                /\ UNCHANGED <<eyedrop_render_cell, palette_indices>>]_vars

(***************************************************************************)
(* Termination of Raster::flood_fill.                                      *)
(***************************************************************************)
\* C23: flood_fill terminates for every raster and in-bounds seed.  Every
\* coordinate is queued at most once (the coordinates queued so far are the
\* members of seen, those expanded so far plus those still queued, without
\* repetition) and expanded at most once, so the number of expansions never
\* exceeds width * height.
C23_FloodFillTerminates ==
    /\ [](flood.pc \in {"loop", "done"} =>
            /\ \A i, j \in 1 .. Len(flood.queue) : flood.queue[i] = flood.queue[j] => i = j
            /\ SeqToSet(flood.queue) \subseteq flood.seen
            /\ flood.pops + Len(flood.queue) = Cardinality(flood.seen)
            /\ flood.seen \subseteq DOMAIN canvas_state
            /\ flood.pops <= Cardinality(DOMAIN canvas_state))
    /\ (flood.pc = "loop") ~> (flood.pc = "done")

\* a fill of a raster of equal cells returned after expanding every coordinate
C23_Witness ==
    /\ flood.pc = "done"
    /\ flood.pops = TermWidth * TermHeight
    /\ flood.seen = DOMAIN canvas_state

(***************************************************************************)
(* Properties of PencilEvent and EraseEvent.                               *)
(***************************************************************************)
\* the visit-count of a coordinate in a Pencil event, 0 when it is not recorded
C24_Count(ev, d) == IF d \in DOMAIN ev.coords THEN ev.coords[d] ELSE 0

\* C24: a Pencil mouse_move to c different from the last-seen coordinate adds
\* exactly one to the visit-count of every coordinate of the rasterized
\* segment from last-seen to c, last-seen excluded and c included (a missing
\* coordinate gets count 1), changes no other count and sets last-seen to c;
\* the segment has no coordinate twice.  A mouse_move to the last-seen
\* coordinate changes nothing.
C24_PencilMoveCountsSegment ==
    [][(/\ stroke.pc = "drawing"
        /\ stroke'.pc = "drawing"
        /\ Len(stroke'.moves) = Len(stroke.moves) + 1
        /\ Unwrap(current_event).tag = "Pencil") =>
          LET ev == Unwrap(current_event)
              ev1 == Unwrap(current_event')
              c == Last(stroke'.moves)
              whole == CoordsBetween(ev.last_coord, c)
              seg == SubSeq(whole, 2, Len(whole))
          IN  IF c = ev.last_coord
              THEN ev1 = ev
              ELSE /\ ev1.tag = "Pencil"
                   /\ ev1.last_coord = c
                   /\ whole[1] = ev.last_coord
                   /\ seg[Len(seg)] = c
                   /\ ev.last_coord \notin SeqToSet(seg)
                   /\ \A i, j \in 1 .. Len(seg) : seg[i] = seg[j] => i = j
                   /\ DOMAIN ev1.coords = DOMAIN ev.coords \cup SeqToSet(seg)
                   /\ \A d \in DOMAIN ev1.coords :
                         ev1.coords[d] = C24_Count(ev, d)
                                         + (IF d \in SeqToSet(seg) THEN 1 ELSE 0)]_vars

\* a pencil stroke went from (0,0) to (3,0) and back: the coordinates between
\* were counted twice, the far end once
C24_Witness ==
    /\ stroke.pc = "drawing"
    /\ Unwrap(current_event).tag = "Pencil"
    /\ stroke.start = <<0, 0>>
    /\ stroke.moves = <<<<3, 0>>, <<0, 0>>>>
    /\ Unwrap(current_event).coords[<<0, 0>>] = 2
    /\ Unwrap(current_event).coords[<<1, 0>>] = 2
    /\ Unwrap(current_event).coords[<<3, 0>>] = 1
    /\ Unwrap(current_event).last_coord = <<0, 0>>

RECURSIVE C25_Composed(_, _, _)
\* the style composed onto a cell n times in sequence
C25_Composed(cell, style, n) ==
    IF n = 0 THEN cell ELSE StackRenderCells(C25_Composed(cell, style, n - 1), style)

\* C25: committing a Pencil event leaves, at every recorded coordinate of the
\* raster, the cell found there with the style composed onto it visit-count
\* times in sequence, and leaves every other cell as it was; the preview of
\* the event on the raster before the commit reports, for exactly the
\* recorded coordinates of the raster, the cell the commit leaves there.  A
\* frame drawn while the Pencil stroke is in progress leaves the raster as it
\* is and shows at every recorded coordinate of the raster the current cell
\* with the style composed onto it visit-count times.
C25_PencilCommitAndPreview ==
    [][/\ (/\ stroke.pc = "drawing"
           /\ stroke'.pc = "committed"
           /\ Unwrap(current_event).tag = "Pencil") =>
             LET ev == Unwrap(current_event)
                 style == CurrentRenderCell
                 recorded == DOMAIN ev.coords \cap DOMAIN canvas_state
                 preview == PencilPreview(ev, canvas_state, style)
             IN  /\ DOMAIN canvas_state' = DOMAIN canvas_state
                 /\ \A c \in DOMAIN canvas_state :
                       canvas_state'[c] = IF c \in recorded
                                          THEN C25_Composed(canvas_state[c], style, ev.coords[c])
                                          ELSE canvas_state[c]
                 /\ ~preview.panicked
                 /\ DOMAIN preview.cells = recorded
                 /\ \A c \in recorded : preview.cells[c] = canvas_state'[c]
       /\ (/\ stroke.pc = "drawing"
           /\ stroke'.pc = "drawing"
           /\ IsSome(stroke'.frame)
           /\ Unwrap(current_event).tag = "Pencil") =>
             LET ev == Unwrap(current_event)
                 fb == Unwrap(stroke'.frame).fb
             IN  /\ canvas_state' = canvas_state
                 /\ current_event' = current_event
                 /\ \A c \in DOMAIN ev.coords \cap DOMAIN canvas_state :
                       fb[c] = C25_Composed(canvas_state[c], CurrentRenderCell, ev.coords[c])]_vars

\* a pencil stroke with a translucent background went over the translucent
\* wall at least twice at (1,0), went left of the canvas, and was
\* committed: the coats differ from one coat and from none
C25_Witness ==
    /\ stroke.pc = "committed"
    /\ stroke.event.tag = "Pencil"
    /\ <<1, 0>> \in DOMAIN stroke.event.coords
    /\ stroke.event.coords[<<1, 0>>] >= 2
    /\ <<-1, 0>> \in DOMAIN stroke.event.coords
    /\ canvas_state[<<1, 0>>] # C25_Composed(stroke.before[<<1, 0>>], stroke.render_cell, 1)
    /\ canvas_state[<<1, 0>>] # stroke.before[<<1, 0>>]
    /\ \E c \in DOMAIN canvas_state : c \notin DOMAIN stroke.event.coords

\* styles an Erase edit may be stored with
C26_Styles == {BlankCell, WallEdit.render_cell, FilledEdit.render_cell}

\* C26: the press of an Erase stroke records the pressed coordinate alone;
\* every mouse_move to c adds all coordinates of the rasterized segment from
\* last-seen to c, which begins at last-seen and ends at c, removes none and
\* sets last-seen to c; the commit sets every visited coordinate of the
\* raster to the cell of a fresh raster, leaves every other cell as it was,
\* and gives the same raster whatever style the edit is stored with.
C26_EraseVisitedSetGrows ==
    [][/\ (stroke.pc = "idle" /\ stroke'.pc = "drawing" /\ CurrentTool = "Erase") =>
             current_event' = Some([tag |-> "Erase", coords |-> {stroke'.start},
                                    last_coord |-> stroke'.start])
       /\ (/\ stroke.pc = "drawing"
           /\ stroke'.pc = "drawing"
           /\ Len(stroke'.moves) = Len(stroke.moves) + 1
           /\ Unwrap(current_event).tag = "Erase") =>
             LET ev == Unwrap(current_event)
                 ev1 == Unwrap(current_event')
                 c == Last(stroke'.moves)
                 seg == CoordsBetween(ev.last_coord, c)
             IN  /\ ev1.tag = "Erase"
                 /\ seg[1] = ev.last_coord
                 /\ seg[Len(seg)] = c
                 /\ ev.coords \subseteq ev1.coords
                 /\ ev1.coords = ev.coords \cup SeqToSet(seg)
                 /\ ev1.last_coord = c
       /\ (/\ stroke.pc = "drawing"
           /\ stroke'.pc = "committed"
           /\ Unwrap(current_event).tag = "Erase") =>
             LET ev == Unwrap(current_event)
             IN  /\ DOMAIN canvas_state' = DOMAIN canvas_state
                 /\ \A d \in DOMAIN canvas_state :
                       canvas_state'[d] = IF d \in ev.coords
                                          THEN RasterNew(StrokeWidth, StrokeHeight)[d]
                                          ELSE canvas_state[d]
                 /\ \A style \in C26_Styles \cup {CurrentRenderCell} :
                       RasterCommitEvent(canvas_state,
                                         DrawingEventWithRenderCell(ev, style)).grid
                           = canvas_state']_vars

\* an erase stroke from (0,0) to (3,0) and on to the left of the canvas was
\* committed on the filled canvas: the top row is blank again, the bottom row
\* is still filled
C26_Witness ==
    /\ stroke.pc = "committed"
    /\ stroke.event.tag = "Erase"
    /\ stroke.start = <<0, 0>>
    /\ stroke.moves = <<<<3, 0>>, <<-1, 0>>>>
    /\ stroke.event.coords = {<<-1, 0>>, <<0, 0>>, <<1, 0>>, <<2, 0>>, <<3, 0>>}
    /\ \A x \in 0 .. StrokeWidth - 1 :
          /\ stroke.before[<<x, 0>>] # BlankCell
          /\ canvas_state[<<x, 0>>] = BlankCell
          /\ canvas_state[<<x, 1>>] = stroke.before[<<x, 1>>]
          /\ canvas_state[<<x, 1>>] # BlankCell

\* C27: a stroke begun at a coordinate c of the raster and committed after
\* mouse_move calls that all gave c (or after none) appends exactly one edit
\* to the history.  For Pencil and Line the edit composes the style once onto
\* the cell at c, for Erase it resets the cell at c, and no other cell
\* changes.  For Fill it composes the style once onto every cell of the
\* connected region of cells equal to the one at c and changes no cell
\* outside; the cells it changes are the whole region, or none when the style
\* leaves the cell at c as it is.
C27_StrokeThatStaysChangesOneCell ==
    (/\ stroke.pc = "committed"
     /\ stroke.start \in DOMAIN stroke.before
     /\ \A i \in 1 .. Len(stroke.moves) : stroke.moves[i] = stroke.start) =>
        LET c == stroke.start
            tag == stroke.event.tag
            changed == {d \in DOMAIN canvas_state : canvas_state[d] # stroke.before[d]}
            region == Connected(stroke.before, stroke.before[c], {c})
            painted == StackRenderCells(stroke.before[c], stroke.render_cell)
        IN  /\ DOMAIN canvas_state = DOMAIN stroke.before
            /\ undo_buffer.events # <<>>
            /\ ButLast(undo_buffer.events) \in StrokeHistories
            /\ Replay(undo_buffer.initial, ButLast(undo_buffer.events)).grid = stroke.before
            /\ Last(undo_buffer.events) =
                   DrawingEventWithRenderCell(stroke.event, stroke.render_cell)
            /\ undo_buffer.redo_buffer = <<>>
            /\ tag \in {"Pencil", "Line"} =>
                  /\ changed \subseteq {c}
                  /\ canvas_state[c] = painted
            /\ tag = "Erase" =>
                  /\ changed \subseteq {c}
                  /\ canvas_state[c] = BlankCell
            /\ tag = "Fill" =>
                  /\ c \in region
                  /\ \A d \in region : canvas_state[d] = painted
                  /\ changed = IF painted = stroke.before[c] THEN {} ELSE region

\* a pencil stroke that stayed at (0,0) through the most mouse_move calls a
\* stroke gets was committed as the second edit of the session and changed
\* that cell alone
C27_Witness ==
    /\ stroke.pc = "committed"
    /\ stroke.event.tag = "Pencil"
    /\ stroke.start = <<0, 0>>
    /\ Len(stroke.moves) = MaxMoves
    /\ \A i \in 1 .. Len(stroke.moves) : stroke.moves[i] = stroke.start
    /\ Len(undo_buffer.events) = 2
    /\ {d \in DOMAIN canvas_state : canvas_state[d] # stroke.before[d]} = {<<0, 0>>}

\* a fill that stayed at (2,1) was committed and changed the columns right of
\* the wall
C27_FillReached ==
    /\ stroke.pc = "committed"
    /\ stroke.event.tag = "Fill"
    /\ stroke.start = <<2, 1>>
    /\ stroke.moves = <<>>
    /\ Len(undo_buffer.events) = 2
    /\ Cardinality({d \in DOMAIN canvas_state : canvas_state[d] # stroke.before[d]})
          = 2 * (StrokeWidth - 2)

\* C28: however the loops of the commits take the entries of a Pencil map, a
\* fill region or an Erase set, a commit that has returned has left the
\* raster that DrawingEvent::commit gives as a function of the event, the
\* style and the raster it was called on, and a replay that has returned has
\* left the raster that is the function Replay of the initial raster and the
\* history: two replays of one history on equal rasters return equal rasters.
C28_CommitIsDeterministic ==
    /\ replay.pc = "events" =>
          replay.raster
              = Replay(undo_buffer.initial, SubSeq(undo_buffer.events, 1, replay.next - 1)).grid
    /\ (replay.pc = "events" /\ replay.next > 1) =>
          replay.raster
              = RasterCommitEvent(
                    Replay(undo_buffer.initial,
                           SubSeq(undo_buffer.events, 1, replay.next - 2)).grid,
                    undo_buffer.events[replay.next - 1]).grid
    /\ replay.pc = "done" =>
          /\ replay.raster = Replay(undo_buffer.initial, undo_buffer.events).grid
          /\ replay.raster = canvas_state

\* the replay of a fill after a pencil stroke has returned: the pencil stroke
\* had painted cells twice, the fill has left the bottom row blank
C28_Witness ==
    /\ replay.pc = "done"
    /\ undo_buffer.events[1].drawing_event.tag = "Pencil"
    /\ undo_buffer.events[2].drawing_event.tag = "Fill"
    /\ \E c \in DOMAIN undo_buffer.events[1].drawing_event.coords :
          undo_buffer.events[1].drawing_event.coords[c] = 2
    /\ replay.raster[<<0, 0>>] # replay.raster[<<0, ReplayHeight - 1>>]
    /\ replay.raster[<<0, ReplayHeight - 1>>] = BlankCell

RECURSIVE C29_Reverse(_)
C29_Reverse(seq) == IF seq = <<>> THEN <<>> ELSE Append(C29_Reverse(Tail(seq)), Head(seq))

\* the edits of the undo buffer in the order they were committed
C29_Edits(ub) == ub.events \o C29_Reverse(ub.redo_buffer)

\* C29: every undo and every redo leaves the sequence of the history followed
\* by the redo buffer in reverse as it was and leaves the initial raster as
\* it was; an undo moves the last edit of the history to the redo buffer when
\* there is one, a redo moves the last edit of the redo buffer to the history
\* when there is one, and otherwise the two change nothing in the buffer.
C29_UndoRedoOnlyMoveEdits ==
    [][(last_input'.op \in {"undo", "redo"}) =>
          /\ C29_Edits(undo_buffer') = C29_Edits(undo_buffer)
          /\ undo_buffer'.initial = undo_buffer.initial
          /\ Len(undo_buffer'.events) =
                IF last_input'.op = "undo"
                THEN (IF undo_buffer.events = <<>> THEN 0 ELSE Len(undo_buffer.events) - 1)
                ELSE (IF undo_buffer.redo_buffer = <<>> THEN Len(undo_buffer.events)
                      ELSE Len(undo_buffer.events) + 1)]_vars

\* a redo has found two edits in the redo buffer and has put the one undone
\* last back at the end of the history
C29_Witness ==
    /\ last_input.op = "redo"
    /\ last_input.redo_len = 2
    /\ Len(undo_buffer.redo_buffer) = 1
    /\ Len(undo_buffer.events) = 2
    /\ C29_Edits(undo_buffer) \in UndoHistories
    /\ ~panicked

\* C30 as stated: a frame drawn while a stroke is in progress leaves the
\* raster, the event in progress and the undo buffer as they are and shows
\* the cell of the event's preview at every coordinate the preview covers and
\* the committed cell at every other coordinate; a frame drawn with no stroke
\* in progress shows the committed raster at every coordinate.
C30_VisualIsRasterUnderPreview ==
    [][(stroke'.pc = stroke.pc /\ IsSome(stroke'.frame) /\ stroke'.frame # stroke.frame) =>
          LET fb == Unwrap(stroke'.frame).fb
              covered == IF IsSome(current_event)
                         THEN DrawingEventPreview(Unwrap(current_event), canvas_state,
                                                  CurrentRenderCell).cells
                         ELSE <<>>
          IN  /\ canvas_state' = canvas_state
              /\ current_event' = current_event
              /\ undo_buffer' = undo_buffer
              /\ DOMAIN fb = DOMAIN canvas_state
              /\ \A c \in DOMAIN fb :
                    fb[c] = IF c \in DOMAIN covered THEN covered[c] ELSE canvas_state[c]]_vars

\* C30: a frame drawn while a stroke is in progress leaves the raster, the
\* event in progress and the undo buffer as they are and shows the cell of
\* the event's preview at every coordinate of the raster the preview covers;
\* at every other coordinate it shows the committed cell, but the cell under
\* the pointer with its background brightened by a third (mid grey when it
\* has none).  A frame drawn with no stroke in progress shows the committed
\* raster with the same change at the cell under the pointer.
C30_VisualIsHoveredRasterUnderPreview ==
    [][(stroke'.pc = stroke.pc /\ IsSome(stroke'.frame) /\ stroke'.frame # stroke.frame) =>
          LET fb == Unwrap(stroke'.frame).fb
              hover == Unwrap(stroke'.frame).hover
              covered == IF IsSome(current_event)
                         THEN DrawingEventPreview(Unwrap(current_event), canvas_state,
                                                  CurrentRenderCell).cells
                         ELSE <<>>
              brightened(x) == IF x * 4 > 3 * 255 THEN 255 ELSE (x * 4) \div 3
              hovered(cell) ==
                  IF cell.background = None
                  THEN [cell EXCEPT !.background = Some(<<127, 127, 127, 255>>)]
                  ELSE LET bg == Unwrap(cell.background)
                       IN  [cell EXCEPT !.background =
                               Some(<<brightened(bg[1]), brightened(bg[2]),
                                      brightened(bg[3]), bg[4]>>)]
          IN  /\ canvas_state' = canvas_state
              /\ current_event' = current_event
              /\ undo_buffer' = undo_buffer
              /\ DOMAIN fb = DOMAIN canvas_state
              /\ \A c \in DOMAIN fb :
                    fb[c] = IF c \in DOMAIN covered THEN covered[c]
                            ELSE IF hover = Some(c) THEN hovered(canvas_state[c])
                            ELSE canvas_state[c]]_vars

\* a frame was drawn during a stroke at (2,1) with the pointer's cell taken to
\* be (1,0), on the wall: the preview covers (2,1) and shows another cell than
\* the committed one there, and the cell at (1,0) is shown brighter than the
\* committed one
C30_Witness ==
    /\ stroke.pc = "drawing"
    /\ IsSome(stroke.frame)
    /\ Unwrap(stroke.frame).hover = Some(<<1, 0>>)
    /\ stroke.start = <<2, 1>>
    /\ Unwrap(stroke.frame).fb[<<2, 1>>] # canvas_state[<<2, 1>>]
    /\ Unwrap(stroke.frame).fb[<<1, 0>>] # canvas_state[<<1, 0>>]
    /\ Unwrap(stroke.frame).fb[<<0, 1>>] = canvas_state[<<0, 1>>]

\* C31: flood_fill called with a seed outside the raster aborts in
\* get_checked: the call never enters its loop and never returns a region,
\* empty or partial, and nothing runs after the abort.  A call that enters
\* the loop or returns has a seed inside the raster.
C31_FloodFillAbortsOutOfBounds ==
    /\ flood.pc # "idle" =>
          (flood.seed \notin DOMAIN canvas_state <=> flood.pc = "panicked")
    /\ flood.pc = "panicked" =>
          /\ DOMAIN flood = {"pc", "seed"}
          /\ ~ENABLED FloodFillIterate
          /\ ~ENABLED FloodFillReturn
    /\ flood.pc \in {"loop", "done"} => flood.seed \in flood.seen
    /\ flood.pc = "done" => ~FloodFill(canvas_state, flood.seed).panicked
    /\ \A seed \in FloodSeeds \ DOMAIN canvas_state : FloodFill(canvas_state, seed).panicked

\* flood_fill was called with the coordinate right of the top right cell of a
\* raster whose cells are not all equal, and aborted
C31_Witness ==
    /\ flood.pc = "panicked"
    /\ flood.seed = <<FloodWidth, 0>>
    /\ <<FloodWidth - 1, 0>> \in DOMAIN canvas_state
    /\ \E c \in DOMAIN canvas_state : canvas_state[c] # canvas_state[<<FloodWidth - 1, 0>>]

\* C32: when top defines a foreground, the foreground of compose(bottom, top)
\* is top's foreground blended over bottom's background if bottom has no
\* character and over bottom's foreground if bottom has a character; where
\* that colour is absent, it is top's foreground as it is.
C32_ForegroundBlendedOverBase ==
    (compose.pc = "done" /\ compose.top.foreground # None) =>
        LET incoming == Unwrap(compose.top.foreground)
            base == IF compose.bottom.character = None
                    THEN compose.bottom.background
                    ELSE compose.bottom.foreground
        IN  compose.ret.foreground =
               IF base = None THEN Some(incoming)
               ELSE Some(AlphaComposite(incoming, Unwrap(base)))

\* a translucent foreground was put on a bottom that has no character but
\* both colours: the result's foreground is the blend over the bottom's
\* background, which differs from the blend over the bottom's foreground
C32_Witness ==
    /\ compose.pc = "done"
    /\ compose.top.foreground # None
    /\ Unwrap(compose.top.foreground)[4] < 255
    /\ compose.bottom.character = None
    /\ compose.bottom.foreground # None
    /\ compose.bottom.background # None
    /\ compose.ret.foreground
          = Some(AlphaComposite(Unwrap(compose.top.foreground), Unwrap(compose.bottom.background)))
    /\ compose.ret.foreground
          # Some(AlphaComposite(Unwrap(compose.top.foreground), Unwrap(compose.bottom.foreground)))

\* C33: in every state of a session begun fresh, a stored eyedrop cell and a
\* palette selection are never both present: while an eyedrop cell is stored
\* the character, foreground and background selections are all unset, and
\* after a palette press no eyedrop cell is stored.  The active paint style
\* is the stored eyedrop cell when there is one, and otherwise the cell of
\* the palette selections.
C33_EyedropOrPaletteNotBoth ==
    /\ IsSome(eyedrop_render_cell) =>
          /\ palette_indices.ch = None
          /\ palette_indices.fg = None
          /\ palette_indices.bg = None
          /\ CurrentRenderCell = Unwrap(eyedrop_render_cell)
    /\ last_input.op = "palette_press" =>
          /\ eyedrop_render_cell = None
          /\ \E row \in {"ch", "fg", "bg"} : palette_indices[row] # None
    /\ eyedrop_render_cell = None =>
          CurrentRenderCell =
              RenderCell(GetCh(palette_indices),
                         GetFg(palette_indices, fg_opacity),
                         GetBg(palette_indices, bg_opacity), None, None)

\* a cell painted with a palette colour was picked with the eyedrop: the
\* colour that was selected on the palette is unset, and the paint style is
\* the picked cell
C33_Witness ==
    /\ last_input.op = "canvas_press"
    /\ CurrentTool = "Eyedrop"
    /\ IsSome(eyedrop_render_cell)
    /\ Unwrap(eyedrop_render_cell).background # Some(NewGrey(0))
    /\ \E c \in CanvasCoords : canvas_state[c] = Unwrap(eyedrop_render_cell)
    /\ palette_indices = NoPaletteIndices
    /\ CurrentRenderCell = Unwrap(eyedrop_render_cell)

====
